---- MODULE Spec2Model ----
(***************************************************************************)
(* Pointer-nullability checker and inference (crubit, nullability/).       *)
(*                                                                         *)
(* The module holds several state machines over one set of variables:      *)
(*   SpecDiagnoser  the match switch of pointerNullabilityDiagnoser()       *)
(*                  applied to one CFG element                              *)
(*   SpecEntry      diagnosePointerNullability(Func, Pragmas)               *)
(*   SpecTransfer   PointerNullabilityAnalysis::transfer over CFG elements  *)
(*   SpecAggregator the evidence of one slot collapsing into an inference   *)
(*   SpecVirtual    evidence emitted on virtual methods and their overrides  *)
(*   SpecInferTU    the iterations of inferTU seen from one slot of a decl   *)
(*   SpecDriver     the iterations of inferTU over the functions of a TU     *)
(*   SpecLattice    the const-method-return cache of the lattice element     *)
(*   SpecOutput     the output-parameter heuristic of transferValue_CallExpr  *)
(*   SpecMember     member calls and null checks of results and fields      *)
(*   SpecEquality   the comparison of two lattice elements                   *)
(*   SpecCompare    transferValue_NullCheckComparison                        *)
(*   SpecMerge      PointerNullabilityAnalysis::merge of two pointer values  *)
(*   SpecWiden, SpecWidenRecorded                                            *)
(*                  PointerNullabilityAnalysis::widen at a loop head         *)
(*   SpecSmart      smart-pointer constructors and assignments               *)
(* A specification leaves the variables of the other machines parked.      *)
(***************************************************************************)
EXTENDS Integers, Sequences, FiniteSets, TLC

VARIABLES
    elt,          \* diagnoser: the CFG element handed to the match switch
    eltOut,       \* diagnoser: the diagnostics the switch returned for it
    eltDone,      \* diagnoser: the switch has run on elt
    pc,           \* entry point: position inside diagnosePointerNullability
    Func,         \* entry point: the FunctionDecl being diagnosed
    Diags,        \* entry point: the vector named Diags (default arguments)
    Diagnostics,  \* entry point: the vector named Diagnostics (CFG elements)
    eltIdx,       \* entry point: CFG elements the callback has been called on
    blockVisits,  \* entry point: blocks visited by runDataflowAnalysis
    satLeft,      \* entry point: iterations left in the WatchedLiteralsSolver
    runFailed,    \* entry point: runDataflowAnalysis returned an error
    timedOut,     \* entry point: elements whose solver query exceeded the budget
    result,       \* entry point: the llvm::Expected returned
    ExprToNullability,  \* transfer: the lattice's expression-to-nullability map
    envValue,     \* transfer: the PointerValue the environment holds per expression
    typeAnnotation,  \* transfer: the vector read off the type of a leaf expression
    visited,      \* transfer: expressions transfer() has run on
    evidence,     \* aggregator: the evidence kinds collected for one slot
    verdict,      \* aggregator: the slot's inferred nullability
    conflict,     \* aggregator: the slot's conflict flag
    overrideRel,  \* virtual methods: pairs <<overrider, overridden>> of the TU
    methodEvidence,  \* virtual methods: evidence recorded per method and slot
    slotDecl,     \* inferTU: the slot's declaration (annotation, pragma, filter)
    slotSites,    \* inferTU: evidence kinds the sites of the slot yield
    slotOverride, \* inferTU: the verdict installed on the decl for the next iteration
    iteration,    \* inferTU: iterations run
    inferences,   \* inferTU: the inference of the last iteration for the slot
    tuBody,       \* driver: the statements of target() in the TU
    installed,    \* driver: per slot, the inference of the last finished iteration
    collected,    \* driver: per slot, the evidence collected in this iteration
    analysed,     \* driver: functions analysed in this iteration
    round,        \* driver: iterations finished
    ConstMethodReturnValues,  \* lattice: <<RecordLoc, method, PointerValue>> entries
    valueCount,   \* lattice: values Env.createValue has created
    callResult,   \* lattice: the member call last transferred and its value in Env
    checked,      \* lattice: values the flow condition knows to be non-null
    returned,     \* lattice: results of const calls since the object's last invalidation
    joinEffect,   \* lattice: what the join just made did
    fieldValue,   \* lattice: the value Env holds for each field of each object
    lastNonConst, \* lattice: the non-const member call last transferred, the values created before it
    compared,     \* lattice: the comparison of the element with another made, and its result
    locValue,     \* output parameters: the PointerValue Env holds per storage location
    createdValues,  \* output parameters: values Env.createValue has created
    outCall,      \* output parameters: the call transferred, and Env before it
    outDeref,     \* output parameters: the dereference diagnosed after the call
    cmpFC,  \* comparison: the flow condition of the environment
    cmpValue,  \* comparison: the value the environment holds for the BinaryOperator
    cmpOp, \* comparison: the BinaryOperator transferred
    mergedVal,  \* merge: the null state of MergedVal
    mergedEnv,  \* merge: the formulas assumed in MergedEnv
    mergeCall, \* merge: the call of merge made, and what it returned
    prevPtr,  \* widen: the loop-carried pointer value of the previous iteration
    prevEnv,  \* widen: the flow condition of the previous iteration
    TopStorageLocations,  \* widen: the top storage location made per pointee type
    widenCall, \* widen: the call of widen made, its locals and what it returned
    smartField,  \* smart pointers: the pointer value in each object's PtrField
    smartCreated,  \* smart pointers: number of pointer values created
    smartOp  \* smart pointers: the last constructor or assignment transferred

diagnoserVars == <<elt, eltOut, eltDone>>
entryVars == <<pc, Func, Diags, Diagnostics, eltIdx, blockVisits, satLeft,
               runFailed, timedOut, result>>
transferVars == <<ExprToNullability, envValue, typeAnnotation, visited>>
aggregatorVars == <<evidence, verdict, conflict>>
virtualVars == <<overrideRel, methodEvidence>>
inferTUVars == <<slotDecl, slotSites, slotOverride, iteration, inferences>>
driverVars == <<tuBody, installed, collected, analysed, round>>
latticeVars == <<ConstMethodReturnValues, valueCount, callResult, checked, returned,
                 joinEffect, fieldValue, lastNonConst, compared>>
outputVars == <<locValue, createdValues, outCall, outDeref>>
compareVars == <<cmpFC, cmpValue, cmpOp>>
mergeVars == <<mergedVal, mergedEnv, mergeCall>>
widenVars == <<prevPtr, prevEnv, TopStorageLocations, widenCall>>
smartVars == <<smartField, smartCreated, smartOp>>
vars == <<diagnoserVars, entryVars, transferVars, aggregatorVars, virtualVars,
          inferTUVars, driverVars, latticeVars, outputVars, compareVars, mergeVars, widenVars, smartVars>>

\* What the actions of one machine leave alone.
frameDiagnoser ==
    <<entryVars, transferVars, aggregatorVars, virtualVars, inferTUVars, driverVars, latticeVars, outputVars, compareVars, mergeVars, widenVars, smartVars>>
frameEntry ==
    <<diagnoserVars, transferVars, aggregatorVars, virtualVars, inferTUVars, driverVars, latticeVars, outputVars, compareVars, mergeVars, widenVars, smartVars>>
frameTransfer ==
    <<diagnoserVars, entryVars, aggregatorVars, virtualVars, inferTUVars, driverVars, latticeVars, outputVars, compareVars, mergeVars, widenVars, smartVars>>
frameAggregator ==
    <<diagnoserVars, entryVars, transferVars, virtualVars, inferTUVars, driverVars, latticeVars, outputVars, compareVars, mergeVars, widenVars, smartVars>>
frameVirtual ==
    <<diagnoserVars, entryVars, transferVars, aggregatorVars, inferTUVars, driverVars, latticeVars, outputVars, compareVars, mergeVars, widenVars, smartVars>>
frameDriver == <<diagnoserVars, entryVars, transferVars, aggregatorVars, virtualVars,
                 inferTUVars, latticeVars, outputVars, compareVars, mergeVars, widenVars, smartVars>>
frameLattice == <<diagnoserVars, entryVars, transferVars, aggregatorVars, virtualVars,
                  inferTUVars, driverVars, outputVars, compareVars, mergeVars, widenVars, smartVars>>
frameInferTU ==
    <<diagnoserVars, entryVars, transferVars, aggregatorVars, virtualVars, driverVars, latticeVars, outputVars, compareVars, mergeVars, widenVars, smartVars>>
frameOutput == <<diagnoserVars, entryVars, transferVars, aggregatorVars, virtualVars,
                 inferTUVars, driverVars, latticeVars, compareVars, mergeVars, widenVars, smartVars>>
frameCompare ==
    <<diagnoserVars, entryVars, transferVars, aggregatorVars, virtualVars, inferTUVars, driverVars, latticeVars, outputVars, mergeVars, widenVars, smartVars>>
frameMerge ==
    <<diagnoserVars, entryVars, transferVars, aggregatorVars, virtualVars, inferTUVars, driverVars, latticeVars, outputVars, compareVars, widenVars, smartVars>>
frameWiden ==
    <<diagnoserVars, entryVars, transferVars, aggregatorVars, virtualVars, inferTUVars, driverVars, latticeVars, outputVars, compareVars, mergeVars, smartVars>>
frameSmart ==
    <<diagnoserVars, entryVars, transferVars, aggregatorVars, virtualVars, inferTUVars, driverVars, latticeVars, outputVars, compareVars, mergeVars, widenVars>>

(***************************************************************************)
(* Bounds of the model.                                                    *)
(***************************************************************************)
MaxParams == 2
MaxElts == 2
MaxCheapVisits == 2
MaxIterations == 3
MaxValues == 4
MaxWidenings == 4
MaxRecordedVisits == 2

\* The limits of diagnosePointerNullability.
MaxSATIterations == 2000000
MaxBlockVisits == 20000

(***************************************************************************)
(* Formulas of the SAT facade: the literals, one atom and its negation.    *)
(* Top stands for the null Formula pointer of a "top" property.            *)
(***************************************************************************)
Top == "top"
Formulas == {"T", "F", "a", "!a"}

Eval(f, v) ==
    CASE f = "T" -> TRUE
      [] f = "F" -> FALSE
      [] f = "a" -> v
      [] f = "!a" -> ~v

\* Environment::allows on a conjunction: some assignment satisfies every member.
Sat(S) == \E v \in BOOLEAN : \A f \in S : Eval(f, v)

\* Environment::proves: the flow condition entails f.
Proves(fc, f) == \A v \in BOOLEAN : (\A g \in fc : Eval(g, v)) => Eval(f, v)

Neg(f) ==
    CASE f = "T" -> "F"
      [] f = "F" -> "T"
      [] f = "a" -> "!a"
      [] f = "!a" -> "a"

(***************************************************************************)
(* Nullability kinds and diagnostics.                                      *)
(***************************************************************************)
NonNull == "NonNull"
Nullable == "Nullable"
Unspecified == "Unspecified"
NullabilityKind == {NonNull, Nullable, Unspecified}

ExpectedNonnull == "ExpectedNonnull"
Untracked == "Untracked"
AssertFailed == "AssertFailed"

NoParam == ""

PointerNullabilityDiagnostic(code, ctx, range, param) ==
    [code |-> code, ctx |-> ctx, range |-> range, param |-> param]

(***************************************************************************)
(* An operand expression as the diagnoser sees it: its identity (the       *)
(* source range of the diagnostic), whether the environment models a       *)
(* PointerValue for it, and that value's is_null property.                 *)
(***************************************************************************)
NoExpr == [id |-> "none", pv |-> FALSE, isNull |-> Top]

Operand(id, pv, isNull) == [id |-> id, pv |-> pv, isNull |-> isNull]

OperandStates(id) ==
    {Operand(id, FALSE, Top)} \cup {Operand(id, TRUE, f) : f \in Formulas \cup {Top}}

\* The environment of a diagnosed element: the flow condition and what the
\* solver does with a query (gaveUp: the query exceeds the iteration budget;
\* onGiveUp: what the facade answers in that case).
Environment(fc, gaveUp, onGiveUp) == [fc |-> fc, gaveUp |-> gaveUp, onGiveUp |-> onGiveUp]

FlowConditions == {{}, {"a"}, {"!a"}}

\* isNullable(PointerVal, Env): the solver, assuming the flow condition, finds
\* a model in which is_null holds. A top is_null carries no formula to query.
isNullable(E, Env) ==
    IF Env.gaveUp THEN Env.onGiveUp
    ELSE E.isNull # Top /\ Sat(Env.fc \cup {E.isNull})

diagnoseNonnullExpected_SafeWhenUntracked(E, Env, DiagCtx, ParamName) ==
    IF E.pv
    THEN IF isNullable(E, Env)
         THEN <<PointerNullabilityDiagnostic(ExpectedNonnull, DiagCtx, E.id, ParamName)>>
         ELSE <<>>
    ELSE <<>>

diagnoseNonnullExpected_UntrackedOnGiveUp(E, Env, DiagCtx, ParamName) ==
    IF E.pv /\ ~Env.gaveUp
    THEN IF isNullable(E, Env)
         THEN <<PointerNullabilityDiagnostic(ExpectedNonnull, DiagCtx, E.id, ParamName)>>
         ELSE <<>>
    ELSE <<PointerNullabilityDiagnostic(Untracked, DiagCtx, E.id, NoParam)>>

\* Diagnoses whether E violates the expectation that it is nonnull.
diagnoseNonnullExpected(E, Env, DiagCtx, ParamName) ==
    IF E.pv
    THEN IF isNullable(E, Env)
         THEN <<PointerNullabilityDiagnostic(ExpectedNonnull, DiagCtx, E.id, ParamName)>>
         ELSE <<>>
    ELSE <<PointerNullabilityDiagnostic(Untracked, DiagCtx, E.id, NoParam)>>

(***************************************************************************)
(* Types as the diagnoser reads them: whether the type with references     *)
(* stripped is a supported pointer type (raw or smart), and                *)
(* countPointersInType.                                                    *)
(***************************************************************************)
Type(ptr, cnt) == [ptr |-> ptr, cnt |-> cnt]

Take(s, n) == SubSeq(s, 1, n)
Drop(s, n) == SubSeq(s, n + 1, Len(s))

\* Diagnoses a conceptual assignment of LHS = RHS: only the top-level pointer
\* is checked.
diagnoseAssignmentLike(LHSType, LHSNullability, RHS, Env, DiagCtx, ParamName) ==
    IF ~LHSType.ptr THEN <<>>
    ELSE IF Head(LHSNullability) = NonNull
         THEN diagnoseNonnullExpected(RHS, Env, DiagCtx, ParamName)
         ELSE <<>>

NullableDereference == "NullableDereference"
FunctionArgument == "FunctionArgument"
ReturnValue == "ReturnValue"
Initializer == "Initializer"
Other == "Other"

diagnoseDereference(UnaryOp, Env) ==
    diagnoseNonnullExpected(UnaryOp.operand, Env, NullableDereference, NoParam)

diagnoseSmartPointerDereference(Op, Env) ==
    diagnoseNonnullExpected(Op.operand, Env, NullableDereference, NoParam)

diagnoseSubscript(Subscript, Env) ==
    diagnoseNonnullExpected(Subscript.operand, Env, NullableDereference, NoParam)

diagnoseArrow(MemberExpr, Env) ==
    diagnoseNonnullExpected(MemberExpr.operand, Env, NullableDereference, NoParam)

ParamNames == <<"p1", "p2", "p3", "p4">>

ParamNameOf(I, nDecls) == IF I <= nDecls THEN ParamNames[I] ELSE ""

RECURSIVE ArgumentLoop(_, _, _, _, _, _)
ArgumentLoop(I, ParamTypes, ParamsNullability, nDecls, Args, Env) ==
    IF I > Len(Args) THEN <<>>
    ELSE LET L == ParamTypes[I].cnt
             ParamNullability == Take(ParamsNullability, L)
         IN  diagnoseAssignmentLike(ParamTypes[I], ParamNullability, Args[I], Env,
                                    FunctionArgument, ParamNameOf(I, nDecls))
             \o ArgumentLoop(I + 1, ParamTypes, Drop(ParamsNullability, L), nDecls, Args, Env)

\* Diagnoses whether any of the arguments are incompatible with the
\* corresponding type in the function prototype. C-style varargs are unchecked.
diagnoseArgumentCompatibility(CalleeFPT, ParamsNullability, nDecls, Args, Env) ==
    LET ParamTypes == CalleeFPT.params
        Checked == IF CalleeFPT.variadic THEN Take(Args, Len(ParamTypes)) ELSE Args
    IN  ArgumentLoop(1, ParamTypes, ParamsNullability, nDecls, Checked, Env)

\* __assert_nullability<K...>(e): compare the computed vector of e with K...
diagnoseAssertNullabilityCall(CE) ==
    IF ~CE.hasComputed
    THEN <<PointerNullabilityDiagnostic(Untracked, Other, "call", NoParam)>>
    ELSE IF CE.computed = CE.expected THEN <<>>
         ELSE <<PointerNullabilityDiagnostic(AssertFailed, Other, "call", NoParam)>>

diagnoseCallExpr_NoReturnSlots(CE, Env) ==
    IF CE.isAssert THEN diagnoseAssertNullabilityCall(CE)
    ELSE IF ~CE.hasCalleeNullability THEN <<>>
    ELSE LET D == IF CE.calleeIsPointer
                  THEN diagnoseNonnullExpected(CE.callee, Env, Other, NoParam)
                  ELSE <<>>
             CalleeNullability == IF CE.calleeIsPointer THEN Drop(CE.vec, 1) ELSE CE.vec
             Args == IF CE.isMemberOperator THEN Tail(CE.args) ELSE CE.args
         IN  IF D # <<>> THEN D
             ELSE IF ~CE.hasProto THEN <<>>
             ELSE diagnoseArgumentCompatibility(CE, CalleeNullability,
                                                CE.nDecls, Args, Env)

diagnoseCallExpr(CE, Env) ==
    IF CE.isAssert THEN diagnoseAssertNullabilityCall(CE)
    ELSE IF ~CE.hasCalleeNullability THEN <<>>
    ELSE LET \* A function-pointer callee is checked for null and unwrapped.
             D == IF CE.calleeIsPointer
                  THEN diagnoseNonnullExpected(CE.callee, Env, Other, NoParam)
                  ELSE <<>>
             CalleeNullability == IF CE.calleeIsPointer THEN Drop(CE.vec, 1) ELSE CE.vec
             \* The implicit object argument of a member operator call is not
             \* in the list of parameter types.
             Args == IF CE.isMemberOperator THEN Tail(CE.args) ELSE CE.args
         IN  IF D # <<>> THEN D
             ELSE IF ~CE.hasProto THEN <<>>
             ELSE diagnoseArgumentCompatibility(CE, Drop(CalleeNullability, CE.retCnt),
                                                CE.nDecls, Args, Env)

\* The constructor's type is void(Args): its nullability is the arguments'.
diagnoseConstructExpr(CE, Env) ==
    IF ~CE.hasProto THEN <<>>
    ELSE diagnoseArgumentCompatibility(CE, CE.vec, CE.nDecls, CE.args, Env)

diagnoseReturn(RS, Env) ==
    IF ~RS.hasValue THEN <<>>
    ELSE diagnoseAssignmentLike(RS.lhsType, Take(RS.lhsNullability, RS.lhsType.cnt),
                                RS.operand, Env, ReturnValue, NoParam)

diagnoseMemberInitializer(CI, Env) ==
    diagnoseAssignmentLike(CI.lhsType, CI.lhsNullability, CI.operand, Env, Initializer, NoParam)

(***************************************************************************)
(* The matchers of the switch, over the attributes of a CFG element: its   *)
(* class, its operator, the type of the sub-expression the matcher looks   *)
(* at ("raw", "smart" or "other"), and a flag.                             *)
(***************************************************************************)
isPointerDereference(E) == E.cls = "UnaryOperator" /\ E.op = "*" /\ E.sub = "raw"

isSmartPointerOperatorCall(E, Name) ==
    E.cls = "CXXOperatorCallExpr" /\ E.op = Name /\ E.sub = "smart"

isPointerSubscript(E) == E.cls = "ArraySubscriptExpr" /\ E.sub = "raw"

isPointerArrow(E) == E.cls = "MemberExpr" /\ E.flag

isCallExpr(E) == E.cls \in {"CallExpr", "CXXOperatorCallExpr", "CXXMemberCallExpr"}

isConstructExpr(E) == E.cls = "CXXConstructExpr"

isPointerReturn(E) == E.cls = "ReturnStmt" /\ E.hasValue /\ E.sub = "raw"

isCtorMemberInitializer(E) == E.cls = "CXXCtorInitializer" /\ E.flag

\* The CFGMatchSwitch: the first case that matches handles the element; an
\* element no case matches yields no diagnostics.
pointerNullabilityDiagnoser(E) ==
    IF isPointerDereference(E) THEN diagnoseDereference(E, E.env)
    ELSE IF isSmartPointerOperatorCall(E, "*") THEN diagnoseSmartPointerDereference(E, E.env)
    ELSE IF isPointerSubscript(E) THEN diagnoseSubscript(E, E.env)
    ELSE IF isSmartPointerOperatorCall(E, "[]") THEN diagnoseSmartPointerDereference(E, E.env)
    ELSE IF isPointerArrow(E) THEN diagnoseArrow(E, E.env)
    ELSE IF isSmartPointerOperatorCall(E, "->") THEN diagnoseSmartPointerDereference(E, E.env)
    ELSE IF isCallExpr(E) THEN diagnoseCallExpr(E.call, E.env)
    ELSE IF isConstructExpr(E) THEN diagnoseConstructExpr(E.call, E.env)
    ELSE IF isPointerReturn(E) THEN diagnoseReturn(E, E.env)
    ELSE IF isCtorMemberInitializer(E) THEN diagnoseMemberInitializer(E, E.env)
    ELSE <<>>

(***************************************************************************)
(* The CFG elements the switch is applied to.                              *)
(***************************************************************************)
NoCall ==
    [isAssert |-> FALSE, hasComputed |-> FALSE, computed |-> <<>>, expected |-> <<>>,
     hasCalleeNullability |-> FALSE, calleeIsPointer |-> FALSE, callee |-> NoExpr,
     hasProto |-> FALSE, isMemberOperator |-> FALSE, variadic |-> FALSE, retCnt |-> 0,
     params |-> <<>>, vec |-> <<>>, nDecls |-> 0, args |-> <<>>]

Element(cls, op, sub, flag, hasValue, operand, fc, lhsType, lhsNullability, call) ==
    [cls |-> cls, op |-> op, sub |-> sub, flag |-> flag, hasValue |-> hasValue,
     operand |-> operand, env |-> Environment(fc, FALSE, FALSE),
     lhsType |-> lhsType, lhsNullability |-> lhsNullability, call |-> call]

DerefShapes ==
    {<<"UnaryOperator", "*", "raw", FALSE>>, <<"UnaryOperator", "*", "other", FALSE>>,
     <<"UnaryOperator", "&", "raw", FALSE>>,
     <<"CXXOperatorCallExpr", "*", "smart", FALSE>>,
     <<"CXXOperatorCallExpr", "[]", "smart", FALSE>>,
     <<"CXXOperatorCallExpr", "->", "smart", FALSE>>,
     <<"ArraySubscriptExpr", "[]", "raw", FALSE>>,
     <<"ArraySubscriptExpr", "[]", "other", FALSE>>,
     <<"MemberExpr", "->", "raw", TRUE>>, <<"MemberExpr", ".", "other", FALSE>>}

DerefElements ==
    {Element(sh[1], sh[2], sh[3], sh[4], FALSE, operand, fc, Type(FALSE, 0), <<>>, NoCall) :
        sh \in DerefShapes, operand \in OperandStates("sub"), fc \in FlowConditions}

\* The nullability vectors a type of the model can carry: any outer slot, and
\* Nullable for the slot of a pointee that is itself a pointer.
SlotsOf(T) ==
    CASE T.cnt = 0 -> {<<>>}
      [] T.cnt = 1 -> {<<k>> : k \in NullabilityKind}
      [] OTHER -> {<<k, Nullable>> : k \in NullabilityKind}

\* Declared types: int*, int**, a smart pointer; int, and a class template
\* instantiated with a pointer (one slot, not itself a pointer).
LHSKinds ==
    {<<"raw", Type(TRUE, 1)>>, <<"raw", Type(TRUE, 2)>>, <<"smart", Type(TRUE, 1)>>,
     <<"other", Type(FALSE, 0)>>, <<"other", Type(FALSE, 1)>>}

ReturnElements ==
    UNION {{Element("ReturnStmt", "", k[1], FALSE, TRUE, operand, fc, k[2], v \o extra, NoCall) :
                v \in SlotsOf(k[2]), extra \in {<<>>, <<NonNull>>},
                operand \in OperandStates("ret"), fc \in FlowConditions} : k \in LHSKinds}
    \cup {Element("ReturnStmt", "", "other", FALSE, FALSE, NoExpr, fc, Type(FALSE, 0), extra, NoCall) :
                extra \in {<<>>, <<NonNull>>}, fc \in FlowConditions}

InitializerElements ==
    UNION {{Element("CXXCtorInitializer", "", k[1], flag, FALSE, operand, fc, k[2], v, NoCall) :
                v \in SlotsOf(k[2]), flag \in BOOLEAN,
                operand \in OperandStates("init"), fc \in FlowConditions} : k \in LHSKinds}

(***************************************************************************)
(* Calls. A parameter is its type and the slots the callee's vector holds  *)
(* for it; the callee's vector is the callee pointer's own slot (if the    *)
(* callee is a pointer), the return type's slots, then the parameters'.    *)
(***************************************************************************)
ParamTypeKinds == {Type(FALSE, 0), Type(TRUE, 1), Type(TRUE, 2), Type(FALSE, 1)}

ParamDescrs == UNION {{[type |-> t, slots |-> v] : v \in SlotsOf(t)} : t \in ParamTypeKinds}

RECURSIVE Flatten(_)
Flatten(ps) == IF ps = <<>> THEN <<>> ELSE Head(ps).slots \o Flatten(Tail(ps))

ArgIds == <<"arg1", "arg2", "arg3", "arg4", "arg5", "arg6">>

ArgChoices == {[pv |-> FALSE, isNull |-> Top], [pv |-> TRUE, isNull |-> "T"],
               [pv |-> TRUE, isNull |-> "F"]}

ArgLists(m) ==
    {[i \in 1..m |-> Operand(ArgIds[i], c[i].pv, c[i].isNull)] : c \in [1..m -> ArgChoices]}

\* What the callee expression is: a member callee (no pointer), or a pointer
\* to function with or without a PointerValue; with or without a prototype
\* and an entry in the expression-to-nullability map.
CalleeModes ==
    {[hasN |-> FALSE, isPtr |-> TRUE,  callee |-> Operand("callee", TRUE, "F"), proto |-> TRUE,  memOp |-> FALSE, direct |-> TRUE],
     [hasN |-> TRUE,  isPtr |-> FALSE, callee |-> Operand("callee", FALSE, Top), proto |-> TRUE,  memOp |-> FALSE, direct |-> TRUE],
     [hasN |-> TRUE,  isPtr |-> FALSE, callee |-> Operand("callee", FALSE, Top), proto |-> FALSE, memOp |-> FALSE, direct |-> FALSE],
     [hasN |-> TRUE,  isPtr |-> TRUE,  callee |-> Operand("callee", TRUE, "F"), proto |-> TRUE,  memOp |-> FALSE, direct |-> TRUE],
     [hasN |-> TRUE,  isPtr |-> TRUE,  callee |-> Operand("callee", TRUE, "F"), proto |-> TRUE,  memOp |-> FALSE, direct |-> FALSE],
     [hasN |-> TRUE,  isPtr |-> TRUE,  callee |-> Operand("callee", TRUE, "F"), proto |-> TRUE,  memOp |-> TRUE,  direct |-> TRUE],
     [hasN |-> TRUE,  isPtr |-> TRUE,  callee |-> Operand("callee", TRUE, "T"), proto |-> TRUE,  memOp |-> FALSE, direct |-> FALSE],
     [hasN |-> TRUE,  isPtr |-> TRUE,  callee |-> Operand("callee", FALSE, Top), proto |-> TRUE,  memOp |-> FALSE, direct |-> FALSE]}

ReturnSlots == {<<>>, <<Nullable>>}

Call(mode, variadic, ret, ps, args) ==
    [isAssert |-> FALSE, hasComputed |-> FALSE, computed |-> <<>>, expected |-> <<>>,
     hasCalleeNullability |-> mode.hasN, calleeIsPointer |-> mode.isPtr,
     callee |-> mode.callee, hasProto |-> mode.proto, isMemberOperator |-> mode.memOp,
     variadic |-> variadic, retCnt |-> Len(ret),
     params |-> [i \in 1..Len(ps) |-> ps[i].type],
     vec |-> (IF mode.isPtr THEN <<Unspecified>> ELSE <<>>) \o ret \o Flatten(ps),
     nDecls |-> IF mode.direct THEN Len(ps) ELSE 0,
     args |-> args]

CallClass(mode) ==
    IF mode.memOp THEN "CXXOperatorCallExpr"
    ELSE IF mode.isPtr THEN "CallExpr" ELSE "CXXMemberCallExpr"

AssertVectors == {<<>>, <<NonNull>>, <<Nullable>>, <<Unspecified, Nullable>>}

AssertElements ==
    {Element("CallExpr", "()", "other", FALSE, FALSE, NoExpr, {}, Type(FALSE, 0), <<>>,
             [NoCall EXCEPT !.isAssert = TRUE, !.hasComputed = h, !.computed = c, !.expected = e]) :
        h \in BOOLEAN, c \in AssertVectors, e \in AssertVectors}

Construct(variadic, ps, args) ==
    [NoCall EXCEPT !.hasProto = TRUE, !.variadic = variadic,
                   !.params = [i \in 1..Len(ps) |-> ps[i].type],
                   !.vec = Flatten(ps), !.nDecls = Len(ps), !.args = args]

CallElement(cls, call) ==
    Element(cls, "()", "other", FALSE, FALSE, NoExpr, {}, Type(FALSE, 0), <<>>, call)

\* Argument counts: one per parameter, one more in a variadic tail, and the
\* implicit object argument in front for a member operator call.
NumArgs(n, variadic, memOp) ==
    n + (IF variadic THEN 1 ELSE 0) + (IF memOp THEN 1 ELSE 0)

(***************************************************************************)
(* SpecDiagnoser: the switch applied to one element.                       *)
(***************************************************************************)
NoResult == [error |-> "unset", diags |-> <<>>]

EntryParked ==
    /\ pc = "parked" /\ Func = <<>>
    /\ Diags = <<>> /\ Diagnostics = <<>> /\ eltIdx = 0
    /\ blockVisits = 0 /\ satLeft = 0
    /\ runFailed = FALSE /\ timedOut = {} /\ result = NoResult

DiagnoserParked == elt = NoExpr /\ eltOut = <<>> /\ eltDone = FALSE

TransferParked ==
    ExprToNullability = <<>> /\ envValue = <<>> /\ typeAnnotation = <<>> /\ visited = {}

AggregatorParked == evidence = {} /\ verdict = "UNKNOWN" /\ conflict = FALSE

LatticeParked ==
    /\ ConstMethodReturnValues = {} /\ valueCount = 0 /\ callResult = <<>>
    /\ checked = {} /\ returned = {} /\ joinEffect = <<>>
    /\ fieldValue = <<>> /\ lastNonConst = <<>> /\ compared = <<>>

CompareParked ==
    cmpFC = {} /\ cmpValue = <<>> /\ cmpOp = <<>>

MergeParked ==
    mergedVal = <<>> /\ mergedEnv = {} /\ mergeCall = <<>>

WidenParked ==
    prevPtr = <<>> /\ prevEnv = {} /\ TopStorageLocations = <<>> /\ widenCall = <<>>

SmartParked ==
    smartField = <<>> /\ smartCreated = 0 /\ smartOp = <<>>

OutputParked ==
    locValue = <<>> /\ createdValues = 0 /\ outCall = <<>> /\ outDeref = <<>>

VirtualParked == LatticeParked /\ overrideRel = {} /\ methodEvidence = <<>>

InferTUParked ==
    /\ slotDecl = <<>> /\ slotSites = {} /\ slotOverride = "none"
    /\ iteration = 0 /\ inferences = [nullability |-> "none", conflict |-> FALSE]
    /\ tuBody = {} /\ installed = <<>> /\ collected = <<>> /\ analysed = {}
    /\ round = 0


InitDiagnoser ==
    /\ SmartParked
    /\ WidenParked
    /\ MergeParked
    /\ CompareParked
    /\ OutputParked
    /\ \/ elt \in DerefElements
       \/ elt \in ReturnElements
       \/ elt \in InitializerElements
       \/ elt \in AssertElements
       \/ \E n \in 0..MaxParams, mode \in CalleeModes, variadic \in BOOLEAN :
            \E ps \in [1..n -> ParamDescrs], ret \in ReturnSlots,
               args \in ArgLists(NumArgs(n, variadic, mode.memOp)) :
                elt = CallElement(CallClass(mode), Call(mode, variadic, ret, ps, args))
       \/ \E n \in 0..MaxParams, variadic \in BOOLEAN :
            \E ps \in [1..n -> ParamDescrs], args \in ArgLists(NumArgs(n, variadic, FALSE)) :
                elt = CallElement("CXXConstructExpr", Construct(variadic, ps, args))
    /\ eltOut = <<>>
    /\ eltDone = FALSE
    /\ EntryParked /\ TransferParked /\ AggregatorParked /\ VirtualParked /\ InferTUParked

\* The diagnoser callback on one CFG element.
Diagnose ==
    /\ ~eltDone
    /\ eltOut' = pointerNullabilityDiagnoser(elt)
    /\ eltDone' = TRUE
    /\ UNCHANGED <<elt, frameDiagnoser>>

NextDiagnoser == Diagnose

SpecDiagnoser == InitDiagnoser /\ [][NextDiagnoser]_vars

(***************************************************************************)
(* Properties of the diagnoser.                                            *)
(***************************************************************************)
HasDiag(out, code, ctx, range) ==
    \E k \in 1..Len(out) : out[k].code = code /\ out[k].ctx = ctx /\ out[k].range = range

DiagsAt(out, range) == {k \in 1..Len(out) : out[k].range = range}

IsDerefSite(E) ==
    \/ isPointerDereference(E) \/ isPointerSubscript(E) \/ isPointerArrow(E)
    \/ \E name \in {"*", "[]", "->"} : isSmartPointerOperatorCall(E, name)

\* is_null(p) is satisfiable together with the flow condition.
NullSatisfiable(p, fc) == p.isNull # Top /\ Sat(fc \cup {p.isNull})

RECURSIVE SumCnt(_, _)
SumCnt(P, k) == IF k = 0 THEN 0 ELSE P[k].cnt + SumCnt(P, k - 1)

IsArgumentCheck(E) ==
    /\ isCallExpr(E) \/ isConstructExpr(E)
    /\ ~IsDerefSite(E)
    /\ ~E.call.isAssert
    /\ E.call.hasProto

\* The nullability vector of the callee's function type.
FunctionVector(CE) == IF CE.calleeIsPointer THEN Drop(CE.vec, 1) ELSE CE.vec

ExplicitArgs(CE) == IF CE.isMemberOperator THEN Tail(CE.args) ELSE CE.args

ArgumentsChecked(CE) ==
    \A i \in 1..Len(CE.params) :
        LET arg == ExplicitArgs(CE)[i]
            slot == CE.retCnt + SumCnt(CE.params, i - 1) + 1
        IN  /\ HasDiag(eltOut, ExpectedNonnull, FunctionArgument, arg.id)
               <=> /\ CE.params[i].ptr
                   /\ FunctionVector(CE)[slot] = NonNull
                   /\ arg.pv /\ isNullable(arg, elt.env)
            /\ Cardinality(DiagsAt(eltOut, arg.id)) <= 1

UncheckedArgsSilent(CE) ==
    /\ \A i \in (Len(CE.params) + 1)..Len(ExplicitArgs(CE)) :
            DiagsAt(eltOut, ExplicitArgs(CE)[i].id) = {}
    /\ CE.isMemberOperator => DiagsAt(eltOut, CE.args[1].id) = {}

\* The callee is usable: it has an entry in the expression-to-nullability map
\* and, when it is a pointer to function, a modeled value that is not nullable.
CalleeUsable(CE, Env) ==
    /\ isCallExpr(elt) => CE.hasCalleeNullability
    /\ (isCallExpr(elt) /\ CE.calleeIsPointer) => (CE.callee.pv /\ ~isNullable(CE.callee, Env))

IsReturnOrInitializer(E) ==
    \/ E.cls = "ReturnStmt"
    \/ E.cls = "CXXCtorInitializer" /\ E.flag

\* C4 (as stated): a return statement or member initializer is diagnosed only
\* when the declared type is a supported pointer type with a Nonnull outer
\* slot, and then its value is diagnosed like a dereference operand, with
\* context ReturnValue / Initializer; otherwise nothing is emitted.
C4_AsStated ==
    (eltDone /\ IsReturnOrInitializer(elt)) =>
        LET p == elt.operand
            ctx == IF elt.cls = "ReturnStmt" THEN ReturnValue ELSE Initializer
            hasRHS == elt.cls = "ReturnStmt" => elt.hasValue
            required == /\ hasRHS /\ elt.lhsType.ptr
                        /\ Head(elt.lhsNullability) = NonNull
        IN  IF required
            THEN eltOut = IF ~p.pv
                          THEN <<PointerNullabilityDiagnostic(Untracked, ctx, p.id, "")>>
                          ELSE IF NullSatisfiable(p, elt.env.fc)
                               THEN <<PointerNullabilityDiagnostic(ExpectedNonnull, ctx, p.id, "")>>
                               ELSE <<>>
            ELSE eltOut = <<>>

(***************************************************************************)
(* SpecEntry: diagnosePointerNullability(Func, Pragmas).                   *)
(***************************************************************************)
ParmVarDecl(dependent, annotation, init, initDependent, initPtr, initAnnotation) ==
    [dependent |-> dependent, annotation |-> annotation, init |-> init,
     initDependent |-> initDependent, initPtr |-> initPtr, initAnnotation |-> initAnnotation]

\* Parameter declarations: T* _Nonnull p = nullptr; = a Nullable expression;
\* = a Nonnull expression; no default; T* _Nullable p = nullptr; a dependent
\* type; int p = 0.
ParmVarDecls ==
    {ParmVarDecl(FALSE, <<NonNull>>, "null", FALSE, TRUE, <<Nullable>>),
     ParmVarDecl(FALSE, <<NonNull>>, "expr", FALSE, TRUE, <<Nullable>>),
     ParmVarDecl(FALSE, <<NonNull>>, "expr", FALSE, TRUE, <<NonNull>>),
     ParmVarDecl(FALSE, <<NonNull>>, "none", FALSE, FALSE, <<>>),
     ParmVarDecl(FALSE, <<Nullable>>, "null", FALSE, TRUE, <<Nullable>>),
     ParmVarDecl(TRUE, <<>>, "null", TRUE, FALSE, <<>>),
     ParmVarDecl(FALSE, <<>>, "expr", FALSE, FALSE, <<>>)}

DefaultArgIds == <<"default1", "default2", "default3", "default4">>

shouldDiagnoseExpectedNonnullDefaultArgValue(Param) ==
    IF Param.init = "none" THEN FALSE
    ELSE IF Param.init = "null" THEN TRUE
    ELSE IF Param.initDependent \/ ~Param.initPtr THEN FALSE
    ELSE Param.initAnnotation # <<>> /\ Head(Param.initAnnotation) = Nullable

\* Checks a default argument against the annotation of its parameter.
checkParmVarDeclWithPointerDefaultArg(Parm, I, D) ==
    IF Parm.dependent THEN D
    ELSE IF Parm.annotation = <<>> \/ Head(Parm.annotation) # NonNull THEN D
    ELSE IF Parm.init = "none" \/ ~shouldDiagnoseExpectedNonnullDefaultArgValue(Parm) THEN D
    ELSE Append(D, PointerNullabilityDiagnostic(ExpectedNonnull, Initializer,
                                                DefaultArgIds[I], ParamNames[I]))

RECURSIVE CheckParameters(_, _, _)
CheckParameters(Parms, I, D) ==
    IF I > Len(Parms) THEN D
    ELSE CheckParameters(Parms, I + 1, checkParmVarDeclWithPointerDefaultArg(Parms[I], I, D))

EltIds == <<"e1", "e2", "e3", "e4">>

EntryOperands == {[pv |-> FALSE, isNull |-> Top], [pv |-> TRUE, isNull |-> "T"],
                  [pv |-> TRUE, isNull |-> "F"]}

\* The CFG elements of a body: dereferences *e of raw pointers.
EntryElements(m) ==
    {[i \in 1..m |-> Element("UnaryOperator", "*", "raw", FALSE, FALSE,
                             Operand(EltIds[i], c[i].pv, c[i].isNull), {},
                             Type(FALSE, 0), <<>>, NoCall)] : c \in [1..m -> EntryOperands]}

FunctionDecls ==
    [templated : BOOLEAN, hasBody : BOOLEAN, cfgOK : BOOLEAN,
     params : UNION {[1..n -> ParmVarDecls] : n \in 0..MaxParams},
     elts : UNION {EntryElements(m) : m \in 0..MaxElts}]

Ok(D) == [error |-> "none", diags |-> D]
Err(e) == [error |-> e, diags |-> <<>>]

InitEntry ==
    /\ SmartParked
    /\ WidenParked
    /\ MergeParked
    /\ CompareParked
    /\ OutputParked
    /\ DiagnoserParked /\ TransferParked /\ AggregatorParked /\ VirtualParked /\ InferTUParked
    /\ pc = "start"
    /\ Func \in {F \in FunctionDecls : (~F.hasBody \/ F.templated) => (F.elts = <<>> /\ F.cfgOK)}
    /\ Diags = <<>> /\ Diagnostics = <<>> /\ eltIdx = 0
    /\ blockVisits = 0 /\ satLeft = 0
    /\ runFailed = FALSE /\ timedOut = {} /\ result = NoResult

\* Lines 452-477: the default-argument checks, the early returns, the CFG and
\* the solver.
Enter ==
    /\ pc = "start"
    /\ IF Func.templated
       THEN /\ result' = Ok(Diags)
            /\ pc' = "done"
            /\ UNCHANGED <<Diags, satLeft>>
       ELSE LET D == CheckParameters(Func.params, 1, Diags)
            IN  /\ Diags' = D
                /\ IF ~Func.hasBody
                   THEN result' = Ok(D) /\ pc' = "done" /\ UNCHANGED satLeft
                   ELSE IF ~Func.cfgOK
                   THEN result' = Err("cfg") /\ pc' = "done" /\ UNCHANGED satLeft
                   ELSE pc' = "run" /\ satLeft' = MaxSATIterations /\ UNCHANGED result
    /\ UNCHANGED <<frameEntry, Func, Diagnostics, eltIdx, blockVisits, runFailed, timedOut>>

\* A solver query of the given cost: it times out when the budget does not
\* cover it, and the budget then stays exhausted (reachedLimit).
GivesUp(cost, left) == cost > 0 /\ cost >= left
Spend(cost, left) == IF GivesUp(cost, left) THEN 0 ELSE left - cost

SolverCosts == {0, 1, MaxSATIterations}

\* runDataflowAnalysis visits blocks (one, or a loop's worth) until the
\* fixpoint; more than MaxBlockVisits visits fail the run. The transfer
\* functions query the solver.
VisitBlock ==
    /\ pc = "run" /\ ~runFailed
    /\ eltIdx = 0
    /\ \E n \in {1, MaxBlockVisits}, cost \in SolverCosts :
        /\ n = 1 => blockVisits < MaxCheapVisits
        /\ blockVisits <= MaxBlockVisits
        /\ blockVisits' = blockVisits + n
        /\ runFailed' = (blockVisits + n > MaxBlockVisits)
        /\ satLeft' = Spend(cost, satLeft)
    /\ UNCHANGED <<frameEntry, pc, Func, Diags, Diagnostics, eltIdx, timedOut, result>>

\* Whether diagnosing the element queries the solver.
QueriesSolver(E) == IsDerefSite(E) /\ E.operand.pv

\* Lines 482-488: the callback appends the diagnoser's output for the element.
DiagnoseElt ==
    /\ pc = "run" /\ ~runFailed
    /\ blockVisits >= 1
    /\ eltIdx < Len(Func.elts)
    /\ LET E == Func.elts[eltIdx + 1]
       IN  \E cost \in (IF QueriesSolver(E) THEN SolverCosts \ {0} ELSE {0}), onGiveUp \in BOOLEAN :
            LET gaveUp == GivesUp(cost, satLeft)
                Env == Environment(E.env.fc, gaveUp, gaveUp /\ onGiveUp)
            IN  /\ Diagnostics' = Diagnostics \o pointerNullabilityDiagnoser([E EXCEPT !.env = Env])
                /\ timedOut' = IF gaveUp THEN timedOut \cup {eltIdx + 1} ELSE timedOut
                /\ satLeft' = Spend(cost, satLeft)
    /\ eltIdx' = eltIdx + 1
    /\ UNCHANGED <<frameEntry, pc, Func, Diags, blockVisits, runFailed, result>>

Finish_IgnoreSolverLimit ==
    /\ pc = "run"
    /\ runFailed \/ (blockVisits >= 1 /\ eltIdx = Len(Func.elts))
    /\ result' = IF runFailed THEN Err("dataflow") ELSE Ok(Diagnostics)
    /\ pc' = "done"
    /\ UNCHANGED <<frameEntry, Func, Diags, Diagnostics, eltIdx, blockVisits,
                   satLeft, runFailed, timedOut>>

\* Lines 490-495: the run's error, the solver's limit, or the diagnostics.
Finish ==
    /\ pc = "run"
    /\ runFailed \/ (blockVisits >= 1 /\ eltIdx = Len(Func.elts))
    /\ result' = IF runFailed THEN Err("dataflow")
                 ELSE IF satLeft = 0 THEN Err("interrupted")
                 ELSE Ok(Diagnostics)
    /\ pc' = "done"
    /\ UNCHANGED <<frameEntry, Func, Diags, Diagnostics, eltIdx, blockVisits,
                   satLeft, runFailed, timedOut>>

NextEntry == Enter \/ VisitBlock \/ DiagnoseElt \/ Finish

SpecEntry == InitEntry /\ [][NextEntry]_vars

(***************************************************************************)
(* Properties of the entry point.                                          *)
(***************************************************************************)
Returned == pc = "done"

\* The parameter's default argument conflicts with its annotation.
InvalidDefaultArg(Parm) ==
    /\ ~Parm.dependent
    /\ Parm.annotation # <<>> /\ Head(Parm.annotation) = NonNull
    /\ \/ Parm.init = "null"
       \/ Parm.init = "expr" /\ Parm.initAnnotation # <<>> /\ Head(Parm.initAnnotation) = Nullable

DefaultArgDiags(out, I) ==
    {k \in 1..Len(out) : /\ out[k].code = ExpectedNonnull
                         /\ out[k].param = ParamNames[I]
                         /\ out[k].range = DefaultArgIds[I]}

\* C3 (as stated): for a non-templated declaration, the returned diagnostics
\* hold exactly one ExpectedNonnull per parameter with an invalid default
\* argument and none for any other, whether or not the declaration has a body.
C3_AsStated ==
    (Returned /\ ~Func.templated /\ result.error = "none") =>
        \A I \in 1..Len(Func.params) :
            Cardinality(DefaultArgDiags(result.diags, I))
                = IF InvalidDefaultArg(Func.params[I]) THEN 1 ELSE 0

BodyAnalysed == ~Func.templated /\ Func.hasBody

C6_AsStated ==
    Returned =>
        \A i \in timedOut :
            HasDiag(Diagnostics, Untracked, NullableDereference, Func.elts[i].operand.id)

\* C6 (amended): a dereference whose query exceeded the solver budget has a
\* modeled operand and is never reported as Untracked; the function as a
\* whole is not accepted: the entry point returns an error and no diagnostics.
C6_TimeoutFailsFunction ==
    /\ \A i \in timedOut :
        /\ Func.elts[i].operand.pv
        /\ ~HasDiag(Diagnostics, Untracked, NullableDereference, Func.elts[i].operand.id)
    /\ (Returned /\ timedOut # {}) =>
        result.error \in {"interrupted", "dataflow"} /\ result.diags = <<>>

C6_Witness ==
    /\ Returned
    /\ \E i \in timedOut : DiagsAt(Diagnostics, Func.elts[i].operand.id) = {}
    /\ result.error = "interrupted"

(***************************************************************************)
(* SpecTransfer: PointerNullabilityAnalysis::transfer over the expressions *)
(* of                                                                      *)
(*     int **pp;  ... *pp ... &pp ... f() ... 0                            *)
(* visited in any order, any number of times.                              *)
(***************************************************************************)
Expr(cls, kind, child, cnt, prvalue, raw) ==
    [cls |-> cls, kind |-> kind, child |-> child, cnt |-> cnt, prvalue |-> prvalue, raw |-> raw]

Exprs == {"pp", "ld", "deref", "addr", "call", "num"}

ExprInfo(E) ==
    CASE E = "pp"    -> Expr("DeclRefExpr", "", "none", 2, FALSE, TRUE)
      [] E = "ld"    -> Expr("CastExpr", "CK_LValueToRValue", "pp", 2, TRUE, TRUE)
      [] E = "deref" -> Expr("UnaryOperator", "UO_Deref", "ld", 1, FALSE, TRUE)
      [] E = "addr"  -> Expr("UnaryOperator", "UO_AddrOf", "paren", 3, TRUE, TRUE)
      [] E = "paren" -> Expr("ParenExpr", "", "pp", 2, FALSE, TRUE)
      [] E = "call"  -> Expr("CallExpr", "", "none", 1, TRUE, TRUE)
      [] E = "num"   -> Expr("IntegerLiteral", "", "none", 0, TRUE, FALSE)

LeafExprs == {"pp", "call"}

countPointersInType(E) == ExprInfo(E).cnt

unspecifiedNullability(E) == [i \in 1..countPointersInType(E) |-> Unspecified]

prepend(Hd, Tl) == <<Hd>> \o Tl

NoEntry == [has |-> FALSE, v |-> <<>>]
Entry(v) == [has |-> TRUE, v |-> v]

\* The CFG has no element for a parenthesised expression: it stands for the
\* expression inside.
ignoreCFGOmittedNodes(E) ==
    IF ExprInfo(E).cls = "ParenExpr" THEN ExprInfo(E).child ELSE E

getExprNullability(M, E) == M[ignoreCFGOmittedNodes(E)]

\* The given vector replaces the entry E has.
insertExprNullabilityIfAbsent_Overwrite(M, E, v) ==
    [M EXCEPT ![ignoreCFGOmittedNodes(E)] = Entry(v)]

\* Returns the entry of E, inserting the given vector if there is none.
insertExprNullabilityIfAbsent(M, E, v) ==
    IF M[ignoreCFGOmittedNodes(E)].has THEN M
    ELSE [M EXCEPT ![ignoreCFGOmittedNodes(E)] = Entry(v)]

\* The nullability of a subexpression, and the map after the lookup: a child
\* without an entry gets the unspecified vector of its type.
getNullabilityForChild(M, C) ==
    LET N == insertExprNullabilityIfAbsent(M, C, unspecifiedNullability(C))
    IN  [v |-> getExprNullability(N, C).v, map |-> N]

\* The Compute callbacks of the transferType_ functions.
Compute(E, M) ==
    LET I == ExprInfo(E)
    IN  CASE I.cls \in {"DeclRefExpr", "CallExpr"} -> [v |-> typeAnnotation[E], map |-> M]
          [] I.cls = "CastExpr" -> getNullabilityForChild(M, I.child)
          [] I.kind = "UO_AddrOf" ->
                LET c == getNullabilityForChild(M, I.child)
                IN  [v |-> prepend(NonNull, c.v), map |-> c.map]
          [] I.kind = "UO_Deref" ->
                LET c == getNullabilityForChild(M, I.child)
                IN  [v |-> Drop(c.v, 1), map |-> c.map]

computeNullability_KeepComputed(E, M) ==
    IF M[E].has THEN M
    ELSE LET c == Compute(E, M)
         IN  insertExprNullabilityIfAbsent(c.map, E, c.v)

\* A vector of the wrong length is discarded for the unspecified one.
computeNullability(E, M) ==
    IF M[E].has THEN M
    ELSE LET c == Compute(E, M)
             ExpectedSize == countPointersInType(E)
             Nullability == IF ExpectedSize # Len(c.v)
                            THEN [i \in 1..ExpectedSize |-> Unspecified]
                            ELSE c.v
         IN  insertExprNullabilityIfAbsent(c.map, E, Nullability)

TypeTransferer(E, M) ==
    IF ExprInfo(E).cls \in {"DeclRefExpr", "CastExpr", "CallExpr", "UnaryOperator"}
    THEN computeNullability(E, M)
    ELSE M

(***************************************************************************)
(* Pointer values: who created the value, and its null state ("none": no   *)
(* null state yet; a kind: initialised from that kind; "unpacked": fresh   *)
(* atoms).                                                                 *)
(***************************************************************************)
PointerValue(origin, state) == [origin |-> origin, state |-> state]
NoValue == PointerValue("absent", "none")

\* The nullability sugar on the expression's own type.
FromClang(E) ==
    IF ExprInfo(E).cls = "CallExpr" /\ typeAnnotation[E] # <<>>
    THEN Head(typeAnnotation[E]) ELSE Unspecified

\* The annotation on the expression's own type is not looked at.
getPointerTypeNullability_MapOnly(E, M) ==
    IF getExprNullability(M, E).has /\ getExprNullability(M, E).v # <<>>
    THEN Head(getExprNullability(M, E).v)
    ELSE Unspecified

getPointerTypeNullability(E, M) ==
    IF FromClang(E) # Unspecified THEN FromClang(E)
    ELSE IF getExprNullability(M, E).has /\ getExprNullability(M, E).v # <<>>
         THEN Head(getExprNullability(M, E).v)
         ELSE Unspecified

\* Gives a value without null state the null state of the kind.
initPointerNullState(PV, kind) ==
    IF PV.state = "none" THEN [PV EXCEPT !.state = kind] ELSE PV

initPointerFromTypeNullability(PV, E, M) ==
    initPointerNullState(PV, getPointerTypeNullability(E, M))

\* A new value with "top" properties unpacked into fresh atoms; NoValue
\* (nullptr) when no property is top.
unpackPointerValue(PV) ==
    IF PV.state \in {NonNull, Nullable, "unpacked"} THEN NoValue
    ELSE PointerValue("unpack", "unpacked")

transferValue_NotNullPointer(E, M, V) ==
    IF V[E] # NoValue THEN [V EXCEPT ![E] = initPointerNullState(V[E], NonNull)] ELSE V

transferValue_Pointer(E, M, V) ==
    IF V[E] = NoValue THEN V
    ELSE LET PV == initPointerFromTypeNullability(V[E], E, M)
             V1 == [V EXCEPT ![E] = PV]
             New == unpackPointerValue(PV)
         IN  IF ExprInfo(E).kind = "CK_LValueToRValue" /\ New # NoValue
             THEN [V1 EXCEPT ![ExprInfo(E).child] = New, ![E] = New]
             ELSE V1

transferValue_CallExpr(E, M, V) ==
    IF ExprInfo(E).raw
    THEN LET PV == IF V[E] # NoValue THEN V[E] ELSE PointerValue("call", "none")
         IN  [V EXCEPT ![E] = initPointerFromTypeNullability(PV, E, M)]
    ELSE V

ValueTransferer(E, M, V) ==
    LET I == ExprInfo(E)
    IN  IF I.kind = "UO_AddrOf" THEN transferValue_NotNullPointer(E, M, V)
        ELSE IF I.cls = "CallExpr" THEN transferValue_CallExpr(E, M, V)
        ELSE IF I.raw THEN transferValue_Pointer(E, M, V)
        ELSE V

ensurePointerHasValue_Always(E, V) ==
    IF ~ExprInfo(E).prvalue \/ ~ExprInfo(E).raw THEN V
    ELSE [V EXCEPT ![E] = PointerValue("ensure", "none")]

\* Every prvalue of raw pointer type gets a value if it has none.
ensurePointerHasValue(E, V) ==
    IF ~ExprInfo(E).prvalue \/ ~ExprInfo(E).raw THEN V
    ELSE IF V[E] = NoValue
         THEN [V EXCEPT ![E] = PointerValue("ensure", "none")]
         ELSE V

\* The vectors the type of a leaf can yield: of the length of the type, or not.
AnnotationVectors(E) ==
    SlotsOf(ExprInfo(E)) \cup {<<>>, [i \in 1..(ExprInfo(E).cnt + 1) |-> Nullable]}

InitTransfer ==
    /\ SmartParked
    /\ WidenParked
    /\ MergeParked
    /\ CompareParked
    /\ OutputParked
    /\ DiagnoserParked /\ EntryParked /\ AggregatorParked /\ VirtualParked /\ InferTUParked
    /\ ExprToNullability = [e \in Exprs |-> NoEntry]
    /\ envValue = [e \in Exprs |-> NoValue]
    /\ typeAnnotation \in [LeafExprs -> UNION {AnnotationVectors(e) : e \in LeafExprs}]
    /\ \A e \in LeafExprs : typeAnnotation[e] \in AnnotationVectors(e)
    /\ visited = {}

\* The framework's own transfer gives an expression a value before the
\* analysis sees it (never for a call).
BuiltinTransfer(E) ==
    /\ envValue[E] = NoValue
    /\ ExprInfo(E).raw /\ ExprInfo(E).cls # "CallExpr"
    /\ \E st \in {"none", NonNull} :
        envValue' = [envValue EXCEPT ![E] = PointerValue("framework", st)]
    /\ UNCHANGED <<frameTransfer, ExprToNullability, typeAnnotation, visited>>

\* PointerNullabilityAnalysis::transfer
transfer(E) ==
    /\ LET V1 == ensurePointerHasValue(E, envValue)
           M1 == TypeTransferer(E, ExprToNullability)
       IN  /\ ExprToNullability' = M1
           /\ envValue' = ValueTransferer(E, M1, V1)
    /\ visited' = visited \cup {E}
    /\ UNCHANGED <<frameTransfer, typeAnnotation>>

NextTransfer == \E E \in Exprs : BuiltinTransfer(E) \/ transfer(E)

SpecTransfer == InitTransfer /\ [][NextTransfer]_vars

\* C7: every expression with an entry in the expression-to-nullability map has
\* a vector of exactly countPointersInType entries: a computed vector of
\* another length is stored as all-Unspecified, and so is a child that was
\* consulted before it was computed.
C7_VectorLength ==
    \A e \in DOMAIN ExprToNullability :
        ExprToNullability[e].has =>
            /\ Len(ExprToNullability[e].v) = countPointersInType(e)
            /\ (e \in LeafExprs /\ Len(typeAnnotation[e]) # countPointersInType(e))
                    => ExprToNullability[e].v = unspecifiedNullability(e)
            /\ (e \in LeafExprs /\ Len(typeAnnotation[e]) = countPointersInType(e) /\ e \in visited
                    /\ ExprToNullability[e].v # typeAnnotation[e])
                    => ExprToNullability[e].v = unspecifiedNullability(e)
            /\ e \notin visited => ExprToNullability[e].v = unspecifiedNullability(e)

C7_Witness ==
    /\ visited = {"call", "ld"}
    /\ Len(typeAnnotation["call"]) = 2
    /\ ExprToNullability["call"] = Entry(<<Unspecified>>)
    /\ ExprToNullability["pp"] = Entry(<<Unspecified, Unspecified>>)
    /\ typeAnnotation["pp"] = <<NonNull, Nullable>>

IsRawPointerPRValue(e) == ExprInfo(e).prvalue /\ ExprInfo(e).raw

\* C8: a transfer step runs ensurePointerHasValue, then the type transferer,
\* then the value transferer: after the step every visited prvalue of raw
\* pointer type has a value, whose null state is initialised, for a value
\* the step created from the nullability the type transferer stored in the
\* same step; and a value the expression already had is not replaced by one
\* of ensurePointerHasValue.
C8_TransferStep ==
    [][\A e \in Exprs :
        /\ (e \in visited' /\ IsRawPointerPRValue(e)) =>
              /\ envValue'[e] # NoValue
              /\ envValue'[e].state # "none"
              /\ envValue'[e].origin \in {"ensure", "call"} =>
                    /\ ExprToNullability'[e].has
                    /\ envValue'[e].state = getPointerTypeNullability(e, ExprToNullability)'
        /\ (envValue[e] # NoValue /\ envValue'[e].origin = "ensure") =>
              envValue[e].origin = "ensure"
      ]_vars

C8_Witness ==
    /\ {"ld", "addr"} \subseteq visited
    /\ envValue["ld"].origin = "ensure"
    /\ envValue["addr"] = PointerValue("framework", NonNull)
    /\ envValue["ld"].state = Nullable

(***************************************************************************)
(* The inference aggregator: per slot, the evidence collapses into a       *)
(* verdict and a conflict flag.                                            *)
(***************************************************************************)
NONNULL == "NONNULL"
NULLABLE == "NULLABLE"
UNKNOWN == "UNKNOWN"

SlotInference(nullability, cnf) == [nullability |-> nullability, conflict |-> cnf]

StrongNonnull == {"UncheckedDereference", "AnnotatedNonnull", "AbortIfNull",
                  "AssignedToNonnull"}
StrongNullable == {"NullableArgument", "AnnotatedNullable", "AssignedFromNullable",
                   "NullableReturn"}
WeakHints == {"NullptrDefaultMemberInitializer"}
SoftKinds == {"NonnullArgument", "UnknownArgument", "NonnullReturn", "UnknownReturn"}
EvidenceKinds == StrongNonnull \cup StrongNullable \cup WeakHints \cup SoftKinds

\* UncheckedDereference > NullableArgument > annotation > AbortIfNull > the
\* strong kinds the ranking does not name > weak hints.
Rank(k) ==
    CASE k = "UncheckedDereference" -> 5
      [] k = "NullableArgument" -> 4
      [] k \in {"AnnotatedNonnull", "AnnotatedNullable"} -> 3
      [] k = "AbortIfNull" -> 2
      [] k \in {"AssignedFromNullable", "NullableReturn", "AssignedToNonnull"} -> 1
      [] OTHER -> 0

MaxRank(S) == CHOOSE r \in {Rank(k) : k \in S} : \A k \in S : Rank(k) <= r

\* The rule as worded: the verdicts it allows for an evidence set, and the
\* conflict flag.
StatedConflict(S) == S \cap StrongNonnull # {} /\ S \cap StrongNullable # {}

StatedVerdicts(S) ==
    IF StatedConflict(S)
    THEN {NONNULL : x \in {1} \cap {IF MaxRank(S \cap StrongNonnull) >= MaxRank(S \cap StrongNullable) THEN 1 ELSE 0}}
         \cup {NULLABLE : x \in {1} \cap {IF MaxRank(S \cap StrongNullable) >= MaxRank(S \cap StrongNonnull) THEN 1 ELSE 0}}
    ELSE IF S \cap (StrongNonnull \cup {"NonnullArgument", "NonnullReturn"}) # {} THEN {NONNULL}
    ELSE IF S \cap (StrongNullable \cup WeakHints) # {} THEN {NULLABLE}
    ELSE {UNKNOWN}

infer_AsStated(S) ==
    SlotInference(CHOOSE v \in StatedVerdicts(S) : TRUE, StatedConflict(S))

\* Of two contradictory annotations the Nullable one decides.
infer_NullableAnnotationWins(S) ==
    IF "AnnotatedNullable" \in S THEN SlotInference(NULLABLE, TRUE)
    ELSE IF S \cap StrongNonnull # {} THEN SlotInference(NONNULL, FALSE)
    ELSE SlotInference(UNKNOWN, FALSE)

\* One return statement returning a Nonnull value decides the return slot.
infer_NonnullReturnWins(S) ==
    IF "NonnullReturn" \in S THEN SlotInference(NONNULL, FALSE)
    ELSE IF S \cap StrongNullable # {} THEN SlotInference(NULLABLE, FALSE)
    ELSE SlotInference(UNKNOWN, FALSE)

\* Conflicting annotations give no verdict; then the strong evidence decides,
\* the higher-ranked side winning a conflict; then evidence of Nonnull
\* arguments or returns, unless an Unknown one comes with it; then weak hints.
infer(S) ==
    LET SN == S \cap StrongNonnull
        SL == S \cap StrongNullable
    IN  IF {"AnnotatedNonnull", "AnnotatedNullable"} \subseteq S
        THEN SlotInference(UNKNOWN, TRUE)
        ELSE IF SN # {} /\ SL # {}
        THEN SlotInference(IF MaxRank(SN) > MaxRank(SL) THEN NONNULL ELSE NULLABLE, TRUE)
        ELSE IF SN # {} THEN SlotInference(NONNULL, FALSE)
        ELSE IF SL # {} THEN SlotInference(NULLABLE, FALSE)
        ELSE IF \/ "NonnullArgument" \in S /\ "UnknownArgument" \notin S
                \/ "NonnullReturn" \in S /\ "UnknownReturn" \notin S
        THEN SlotInference(NONNULL, FALSE)
        ELSE IF S \cap WeakHints # {} THEN SlotInference(NULLABLE, FALSE)
        ELSE SlotInference(UNKNOWN, FALSE)

InitAggregator ==
    /\ SmartParked
    /\ WidenParked
    /\ MergeParked
    /\ CompareParked
    /\ OutputParked
    /\ DiagnoserParked /\ EntryParked /\ TransferParked /\ VirtualParked /\ InferTUParked
    /\ evidence = {}
    /\ verdict = infer({}).nullability
    /\ conflict = infer({}).conflict

\* One more kind of evidence arrives for the slot.
AddEvidence(k) ==
    /\ k \notin evidence
    /\ evidence' = evidence \cup {k}
    /\ verdict' = infer(evidence \cup {k}).nullability
    /\ conflict' = infer(evidence \cup {k}).conflict
    /\ UNCHANGED frameAggregator

NextAggregator == \E k \in EvidenceKinds : AddEvidence(k)

SpecAggregator == InitAggregator /\ [][NextAggregator]_vars

\* The slots of infer_tu_test.cc: their evidence and the inference expected.
Expected ==
    { <<{"UncheckedDereference"}, NONNULL>>,
      <<{"NullptrDefaultMemberInitializer", "UncheckedDereference"}, NONNULL>>,
      <<{"AssignedFromNullable", "UncheckedDereference"}, NONNULL>>,
      <<{"AssignedFromNullable"}, NULLABLE>>,
      <<{"NonnullArgument", "UncheckedDereference"}, NONNULL>>,
      <<{"AnnotatedNonnull", "AnnotatedNullable"}, UNKNOWN>>,
      <<{"UnknownArgument"}, UNKNOWN>>,
      <<{"NonnullArgument"}, NONNULL>>,
      <<{"NullableArgument"}, NULLABLE>>,
      <<{"NullableReturn"}, NULLABLE>>,
      <<{"NonnullReturn"}, NONNULL>>,
      <<{"NonnullReturn", "UnknownReturn"}, UNKNOWN>>,
      <<{"NonnullReturn", "NullableReturn"}, NULLABLE>> }

ReturnKinds == {"NullableReturn", "NonnullReturn", "UnknownReturn"}

\* C14: for a return slot whose evidence comes from return statements only,
\* the verdict is Nullable iff some return statement returns a nullable
\* value, Nonnull iff every return statement returns a Nonnull value, and
\* Unknown iff some returned value is of unknown nullability and none is
\* nullable.
C14_ReturnSlot ==
    (evidence # {} /\ evidence \subseteq ReturnKinds) =>
        /\ verdict = NULLABLE <=> "NullableReturn" \in evidence
        /\ verdict = NONNULL <=> evidence = {"NonnullReturn"}
        /\ verdict = UNKNOWN <=> ("UnknownReturn" \in evidence
                                   /\ "NullableReturn" \notin evidence)

C14_Witness ==
    /\ evidence = {"NonnullReturn", "NullableReturn", "UnknownReturn"}
    /\ verdict = NULLABLE

\* C15: a slot annotated Nonnull on one declaration and Nullable on another
\* is inferred Unknown.
C15_AnnotationsConflict ==
    {"AnnotatedNonnull", "AnnotatedNullable"} \subseteq evidence => verdict = UNKNOWN

C15_Witness ==
    /\ evidence = {"AnnotatedNonnull", "AnnotatedNullable"}
    /\ verdict = UNKNOWN

(***************************************************************************)
(* Virtual methods: evidence emitted for a slot of a virtual method is     *)
(* also recorded for the methods it overrides or for its overriders,       *)
(* depending on the slot and on what the evidence points to.               *)
(***************************************************************************)
Methods == {"Base", "Derived", "Third"}

\* The class hierarchies of the InferTUVirtualMethodsTest cases: one
\* overrider, two overriders of one base (MultipleDerived), one overrider of
\* two bases (MultipleBase).
Hierarchies ==
    { {<<"Derived", "Base">>},
      {<<"Derived", "Base">>, <<"Third", "Base">>},
      {<<"Derived", "Base">>, <<"Derived", "Third">>} }

\* Slot 0 is the return value, slot 1 the parameter.
SlotKinds(slot) ==
    IF slot = 0
    THEN {"NullableReturn", "NonnullReturn", "UncheckedDereference"}
    ELSE {"UncheckedDereference", "AssignedFromNullable", "NullableArgument"}

PointsToNonnull(k) == k \in StrongNonnull \cup {"NonnullArgument", "NonnullReturn"}
PointsToNullable(k) == k \in StrongNullable

\* Every target receives the evidence, whatever the slot and the kind.
virtualTargets_BothWays(rel, m, slot, k) ==
    {m} \cup {b \in Methods : <<m, b>> \in rel} \cup {d \in Methods : <<d, m>> \in rel}

\* Only the method at the site receives the evidence.
virtualTargets_Self(rel, m, slot, k) == {m}

\* The methods evidence of kind k for a slot of m is recorded for: a
\* parameter that must be Nonnull and a return that may be Nullable constrain
\* the overridden methods, a parameter that may be Nullable and a return that
\* is Nonnull constrain the overriders.
virtualTargets(rel, m, slot, k) ==
    LET ToBases == IF slot = 0 THEN PointsToNullable(k) ELSE PointsToNonnull(k)
        ToDerived == IF slot = 0 THEN PointsToNonnull(k) ELSE PointsToNullable(k)
    IN  {m} \cup {b \in Methods : ToBases /\ <<m, b>> \in rel}
            \cup {d \in Methods : ToDerived /\ <<d, m>> \in rel}

TUMethods(rel) == {m \in Methods : \E p \in rel : m \in {p[1], p[2]}}

InitVirtual ==
    /\ SmartParked
    /\ WidenParked
    /\ MergeParked
    /\ CompareParked
    /\ OutputParked
    /\ DiagnoserParked /\ EntryParked /\ TransferParked /\ AggregatorParked
    /\ InferTUParked /\ LatticeParked
    /\ overrideRel \in Hierarchies
    /\ methodEvidence = [m \in Methods |-> [slot \in {0, 1} |-> {}]]

\* A site yields evidence of kind k for a slot of method m.
emit(m, slot, k) ==
    /\ m \in TUMethods(overrideRel)
    /\ k \notin methodEvidence[m][slot]
    /\ methodEvidence' =
         [x \in Methods |->
            IF x \in virtualTargets(overrideRel, m, slot, k)
            THEN [methodEvidence[x] EXCEPT ![slot] = @ \cup {k}]
            ELSE methodEvidence[x]]
    /\ UNCHANGED <<overrideRel, frameVirtual>>

NextVirtual ==
    \E m \in Methods, slot \in {0, 1} : \E k \in SlotKinds(slot) : emit(m, slot, k)

SpecVirtual == InitVirtual /\ [][NextVirtual]_vars

inferredSlot(m, slot) == infer(methodEvidence[m][slot])

\* The sites of SafeVarianceNoConflicts, BaseConstrainsDerived,
\* DerivedConstrainsBase and of the usage() of Conflict.
SafeVarianceSites ==
    { <<"Base", 1, "UncheckedDereference">>, <<"Base", 0, "NullableReturn">>,
      <<"Derived", 1, "AssignedFromNullable">>, <<"Derived", 0, "NonnullReturn">> }
BaseSites == { <<"Base", 1, "AssignedFromNullable">>, <<"Base", 0, "NonnullReturn">> }
DerivedSites == { <<"Derived", 1, "UncheckedDereference">>, <<"Derived", 0, "NullableReturn">> }
UsageSites == { <<"Base", 1, "NullableArgument">>, <<"Base", 0, "UncheckedDereference">> }

\* The TU has the hierarchy rel and the evidence of exactly these sites.
InHierarchy(rel, sites) ==
    /\ overrideRel = rel
    /\ methodEvidence =
         [m \in Methods |-> [slot \in {0, 1} |->
            {k \in SlotKinds(slot) :
               \E x \in Methods : /\ <<x, slot, k>> \in sites
                                  /\ m \in virtualTargets(rel, x, slot, k)}]]

\* C11 as stated: the members of an override chain have the same verdict for
\* the parameter slot and the same verdict for the return slot.
C11_AsStated ==
    \A p \in overrideRel : \A slot \in {0, 1} :
        inferredSlot(p[1], slot).nullability = inferredSlot(p[2], slot).nullability

\* C11: the verdicts of an overrider and of the method it overrides may
\* differ, but only in the safe direction: the overrider's parameter is never
\* Nonnull where the overridden parameter is Nullable, its return never
\* Nullable where the overridden return is Nonnull; strong evidence against
\* the safe direction sets the conflict flag on both methods; the slots of
\* SafeVarianceNoConflicts differ without conflict, those of Conflict are all
\* Nonnull with conflict.
C11_VarianceSafe ==
    /\ \A p \in overrideRel :
         LET d == p[1]
             b == p[2]
         IN  /\ ~(inferredSlot(d, 1).nullability = NONNULL
                    /\ inferredSlot(b, 1).nullability = NULLABLE)
             /\ ~(inferredSlot(d, 0).nullability = NULLABLE
                    /\ inferredSlot(b, 0).nullability = NONNULL)
             /\ (/\ methodEvidence[d][1] \cap StrongNonnull # {}
                 /\ methodEvidence[b][1] \cap StrongNullable # {})
                   => inferredSlot(d, 1).conflict /\ inferredSlot(b, 1).conflict
             /\ (/\ methodEvidence[d][0] \cap StrongNullable # {}
                 /\ methodEvidence[b][0] \cap StrongNonnull # {})
                   => inferredSlot(d, 0).conflict /\ inferredSlot(b, 0).conflict
    /\ InHierarchy({<<"Derived", "Base">>}, SafeVarianceSites)
         => /\ inferredSlot("Base", 0) = SlotInference(NULLABLE, FALSE)
            /\ inferredSlot("Base", 1) = SlotInference(NONNULL, FALSE)
            /\ inferredSlot("Derived", 0) = SlotInference(NONNULL, FALSE)
            /\ inferredSlot("Derived", 1) = SlotInference(NULLABLE, FALSE)
    /\ InHierarchy({<<"Derived", "Base">>}, DerivedSites \cup UsageSites)
         => \A m \in {"Base", "Derived"} : \A slot \in {0, 1} :
                inferredSlot(m, slot) = SlotInference(NONNULL, TRUE)

C11_Witness ==
    /\ InHierarchy({<<"Derived", "Base">>}, DerivedSites \cup UsageSites)
    /\ inferredSlot("Derived", 1).conflict
    /\ inferredSlot("Base", 0).conflict

\* C12: evidence for a slot of a virtual method is also recorded along the
\* override relation in the variance-safe direction: Nonnull evidence for a
\* parameter and Nullable evidence for the return of an overrider for every
\* method it overrides, Nullable evidence for a parameter and Nonnull
\* evidence for the return of an overridden method for every overrider; a
\* method declared without a body gets the verdicts of the other's body
\* (BaseConstrainsDerived, DerivedConstrainsBase), and so does each of
\* several overriders or bases (MultipleDerived, MultipleBase).
C12_Propagation ==
    /\ \A p \in overrideRel :
         LET d == p[1]
             b == p[2]
         IN  /\ {k \in methodEvidence[d][1] : PointsToNonnull(k)} \subseteq methodEvidence[b][1]
             /\ {k \in methodEvidence[d][0] : PointsToNullable(k)} \subseteq methodEvidence[b][0]
             /\ {k \in methodEvidence[b][1] : PointsToNullable(k)} \subseteq methodEvidence[d][1]
             /\ {k \in methodEvidence[b][0] : PointsToNonnull(k)} \subseteq methodEvidence[d][0]
    /\ InHierarchy({<<"Derived", "Base">>}, BaseSites)
         => \A m \in {"Base", "Derived"} :
                /\ inferredSlot(m, 0) = SlotInference(NONNULL, FALSE)
                /\ inferredSlot(m, 1) = SlotInference(NULLABLE, FALSE)
    /\ InHierarchy({<<"Derived", "Base">>}, DerivedSites)
         => \A m \in {"Base", "Derived"} :
                /\ inferredSlot(m, 0) = SlotInference(NULLABLE, FALSE)
                /\ inferredSlot(m, 1) = SlotInference(NONNULL, FALSE)
    /\ InHierarchy({<<"Derived", "Base">>, <<"Third", "Base">>},
                   {<<"Base", 1, "AssignedFromNullable">>})
         => \A m \in Methods : inferredSlot(m, 1) = SlotInference(NULLABLE, FALSE)
    /\ InHierarchy({<<"Derived", "Base">>, <<"Derived", "Third">>},
                   {<<"Derived", 1, "UncheckedDereference">>})
         => \A m \in Methods : inferredSlot(m, 1) = SlotInference(NONNULL, FALSE)

C12_Witness ==
    /\ InHierarchy({<<"Derived", "Base">>, <<"Derived", "Third">>},
                   {<<"Derived", 1, "UncheckedDereference">>})
    /\ inferredSlot("Third", 1).nullability = NONNULL
    /\ inferredSlot("Base", 1).nullability = NONNULL

(***************************************************************************)
(* inferTU seen from one slot of one decl: every iteration collects the    *)
(* evidence for the slot, infers from it, and installs the verdict on the  *)
(* decl for the next iteration.                                            *)
(***************************************************************************)
\* The slot as declared: its explicit annotation (Nonnull<>, Nullable<>,
\* NullabilityUnknown<> or none), the file's pragma default, and whether the
\* decl is considered (no Filter, or the Filter returned true for it).
SlotDecls ==
    [explicit : {"None", NonNull, Nullable, Unspecified},
     pragma : {"None", NonNull},
     accepted : BOOLEAN]

\* Evidence the sites of the slot can yield.
SiteKinds == {"UncheckedDereference", "AssignedFromNullable", "NonnullArgument",
              "UnknownArgument"}

\* No inference is reported for the slot.
NoInference == SlotInference("none", FALSE)

\* An explicit annotation, NullabilityUnknown included, replaces the pragma
\* default.
declaredNullability(decl) ==
    IF decl.explicit # "None" THEN decl.explicit
    ELSE IF decl.pragma # "None" THEN decl.pragma
    ELSE Unspecified

annotationEvidence(decl) ==
    CASE declaredNullability(decl) = NonNull -> {"AnnotatedNonnull"}
      [] declaredNullability(decl) = Nullable -> {"AnnotatedNullable"}
      [] OTHER -> {}

\* The sites count whatever the declaration says.
collectEvidence_AllSites(decl, sites) == annotationEvidence(decl) \cup sites

\* Every decl is considered, whatever the Filter answers.
considered_All(decl) == TRUE

\* The evidence of an iteration for the slot: the annotation, and for a slot
\* the declaration leaves open what the sites yield.
collectEvidence(decl, sites) ==
    annotationEvidence(decl)
      \cup (IF declaredNullability(decl) = Unspecified THEN sites ELSE {})

\* "If Filter is provided, only considers decls that return true."
considered(decl) == decl.accepted

\* What the next iteration's analysis takes the slot to be.
effectiveNullability(decl, override) ==
    IF decl.explicit \in {NonNull, Nullable} THEN decl.explicit
    ELSE IF override = NONNULL THEN NonNull
    ELSE IF override = NULLABLE THEN Nullable
    ELSE declaredNullability(decl)

InitInferTU ==
    /\ SmartParked
    /\ WidenParked
    /\ MergeParked
    /\ CompareParked
    /\ OutputParked
    /\ DiagnoserParked /\ EntryParked /\ TransferParked /\ AggregatorParked
    /\ VirtualParked
    /\ tuBody = {} /\ installed = <<>> /\ collected = <<>> /\ analysed = {}
    /\ round = 0
    /\ slotDecl \in SlotDecls
    /\ slotSites = {}
    /\ slotOverride = "none"
    /\ iteration = 0
    /\ inferences = NoInference

\* One iteration; with the overrides of the iterations before, the sites of
\* the slot may yield more evidence (S) than they did.
Iterate(S) ==
    /\ iteration < MaxIterations
    /\ iteration' = iteration + 1
    /\ slotSites' = slotSites \cup S
    /\ LET ev == collectEvidence(slotDecl, slotSites \cup S)
           inf == IF considered(slotDecl) /\ ev # {} THEN infer(ev) ELSE NoInference
       IN  /\ inferences' = inf
           /\ slotOverride' = IF inf = NoInference THEN slotOverride
                              ELSE inf.nullability
    /\ UNCHANGED <<slotDecl, frameInferTU>>

NextInferTU == \E S \in SUBSET SiteKinds : Iterate(S)

SpecInferTU == InitInferTU /\ [][NextInferTU]_vars

C16_FilteredOut ==
    ~slotDecl.accepted => (inferences = NoInference /\ slotOverride = "none")

C16_Witness ==
    /\ ~slotDecl.accepted
    /\ iteration >= 2
    /\ "AssignedFromNullable" \in slotSites
    /\ inferences = NoInference

(***************************************************************************)
(* inferTU over the functions of IterationsPropagateInferences: every      *)
(* iteration analyses each function once, in some order, then infers from  *)
(* the evidence collected and installs the verdicts for the next one.      *)
(***************************************************************************)
TestIterations == 4

Functions == {"takesToBeNonnull", "returnsToBeNonnull", "target"}

\* takesToBeNonnull(X), returnsToBeNonnull(A) and its return value,
\* target(P, Q, R) and its return value.
DriverSlots == {"takes.X", "returns.0", "returns.A",
                "target.0", "target.P", "target.Q", "target.R"}

\* The statements of target(); the test has all four.
TargetStmts == {"*P", "takesToBeNonnull(Q)", "Q = R", "return returnsToBeNonnull(P)"}

\* The analysis of a function also sees what was inferred from the evidence
\* collected earlier in the same iteration.
visibleVerdicts_InPlace(inst, coll) ==
    [s \in DriverSlots |-> IF coll[s] # {} THEN infer(coll[s]) ELSE inst[s]]

\* The verdicts the analysis of a function sees: those installed after the
\* iteration before.
visibleVerdicts(inst, coll) == inst

\* The evidence, as <<slot, kind>>, the analysis of function f yields when it
\* sees the verdicts V.
functionEvidence(f, body, V) ==
    LET Is(s, n) == V[s].nullability = n
        ArgKind(s) == IF Is(s, NONNULL) THEN "NonnullArgument"
                      ELSE IF Is(s, NULLABLE) THEN "NullableArgument"
                      ELSE "UnknownArgument"
        RetKind(s) == IF Is(s, NONNULL) THEN "NonnullReturn"
                      ELSE IF Is(s, NULLABLE) THEN "NullableReturn"
                      ELSE "UnknownReturn"
    IN  CASE f = "takesToBeNonnull" -> {<<"takes.X", "UncheckedDereference">>}
          [] f = "returnsToBeNonnull" -> {<<"returns.0", RetKind("returns.A")>>}
          [] f = "target" ->
               {<<"target.P", "UncheckedDereference">> : x \in {"*P"} \cap body}
               \cup {<<"takes.X", ArgKind("target.Q")>> :
                       x \in {"takesToBeNonnull(Q)"} \cap body}
               \cup {<<"target.Q", "AssignedToNonnull">> :
                       x \in {y \in {"takesToBeNonnull(Q)"} \cap body :
                                Is("takes.X", NONNULL)}}
               \cup {<<"target.Q", IF Is("target.R", NULLABLE)
                                   THEN "AssignedFromNullable"
                                   ELSE "AssignedFromUnknown">> :
                       x \in {"Q = R"} \cap body}
               \cup {<<"target.R", "AssignedToNonnull">> :
                       x \in {y \in {"Q = R"} \cap body : Is("target.Q", NONNULL)}}
               \cup {<<"returns.A", ArgKind("target.P")>> :
                       x \in {"return returnsToBeNonnull(P)"} \cap body}
               \cup {<<"target.P", "AssignedToNonnull">> :
                       x \in {y \in {"return returnsToBeNonnull(P)"} \cap body :
                                Is("returns.A", NONNULL)}}
               \cup {<<"target.0", RetKind("returns.0")>> :
                       x \in {"return returnsToBeNonnull(P)"} \cap body}

InitDriver ==
    /\ SmartParked
    /\ WidenParked
    /\ MergeParked
    /\ CompareParked
    /\ OutputParked
    /\ DiagnoserParked /\ EntryParked /\ TransferParked /\ AggregatorParked
    /\ VirtualParked
    /\ slotDecl = <<>> /\ slotSites = {} /\ slotOverride = "none"
    /\ iteration = 0 /\ inferences = NoInference
    /\ tuBody \in SUBSET TargetStmts
    /\ installed = [s \in DriverSlots |-> NoInference]
    /\ collected = [s \in DriverSlots |-> {}]
    /\ analysed = {}
    /\ round = 0

\* The analysis of one function and the evidence it emits.
Analyse(f) ==
    /\ round < TestIterations
    /\ f \notin analysed
    /\ analysed' = analysed \cup {f}
    /\ LET E == functionEvidence(f, tuBody, visibleVerdicts(installed, collected))
       IN  collected' = [s \in DriverSlots |->
                           collected[s] \cup {e[2] : e \in {x \in E : x[1] = s}}]
    /\ UNCHANGED <<tuBody, installed, round, frameDriver>>

\* Every function has been analysed: infer, install, next iteration.
EndIteration ==
    /\ analysed = Functions
    /\ installed' = [s \in DriverSlots |->
                       IF collected[s] = {} THEN NoInference ELSE infer(collected[s])]
    /\ collected' = [s \in DriverSlots |-> {}]
    /\ analysed' = {}
    /\ round' = round + 1
    /\ UNCHANGED <<tuBody, frameDriver>>

NextDriver == (\E f \in Functions : Analyse(f)) \/ EndIteration

SpecDriver == InitDriver /\ [][NextDriver]_vars

\* The inferences IterationsPropagateInferences expects after k iterations.
ExpectedAfter(k) ==
    LET nn == SlotInference(NONNULL, FALSE)
        un == SlotInference(UNKNOWN, FALSE)
    IN  [s \in DriverSlots |->
           CASE s \in {"takes.X", "target.P"} -> nn
             [] s = "target.Q" -> IF k >= 2 THEN nn ELSE un
             [] s = "returns.A" -> IF k >= 2 THEN nn ELSE un
             [] s = "target.R" -> IF k >= 3 THEN nn ELSE NoInference
             [] s = "returns.0" -> IF k >= 3 THEN nn ELSE un
             [] s = "target.0" -> IF k >= 4 THEN nn ELSE un]

\* C17: within an iteration the evidence collected so far is the evidence
\* each analysed function yields under the verdicts installed after the
\* iteration before, whatever the order the functions were analysed in; for
\* the program of IterationsPropagateInferences the inferences after every
\* iteration are the expected ones in every order.
C17_OrderIndependent ==
    /\ \A s \in DriverSlots :
         collected[s] = {e[2] : e \in {x \in UNION {functionEvidence(f, tuBody, installed) :
                                                      f \in analysed} : x[1] = s}}
    /\ (tuBody = TargetStmts /\ round >= 1 /\ analysed = {})
         => installed = ExpectedAfter(round)

C17_Witness ==
    /\ tuBody = TargetStmts
    /\ round = TestIterations
    /\ installed["target.0"] = SlotInference(NONNULL, FALSE)

(***************************************************************************)
(* The lattice element's cache of const-method return values, with the    *)
(* member calls that fill and clear it and the join that empties it.       *)
(***************************************************************************)
\* Objects with a RecordStorageLocation; NoRecordLoc is the nullptr
\* getImplicitObjectLocation returns for an object without one.
RecordLocs == {"obj", "c"}
NoRecordLoc == "nullptr"
ConstMethods == {"property", "other"}

NonConstMethod == "may_mutate"

\* The fields of the objects' classes; the raw pointer ones.
RecordFields(RecordLoc) ==
    IF RecordLoc = "obj" THEN {"ptr", "next", "count"} ELSE {"count"}
isSupportedRawPointerType(Field) == Field \in {"ptr", "next"}
FieldIndex(Field) == CASE Field = "ptr" -> 1 [] Field = "next" -> 2 [] OTHER -> 0

\* The values the fields hold when the function is entered.
InitialFieldValues ==
    [l \in RecordLocs |->
        [f \in RecordFields(l) |-> 0 - (FieldIndex(f) + (IF l = "obj" THEN 0 ELSE 3) + 1)]]

NoCallResult == [loc |-> NoRecordLoc, method |-> "none", value |-> 0, cached |-> FALSE]
NoNonConstCall == [called |-> FALSE, loc |-> NoRecordLoc, created |-> 0]
NoJoin == [wasEmpty |-> TRUE, wasChecked |-> FALSE, effect |-> "none"]

\* Every call creates its own value.
getConstMethodReturnValue_Fresh(Cache, RecordLoc, Method, NewValue) ==
    [PV |-> NewValue, Cache |-> Cache \cup {<<RecordLoc, Method, NewValue>>}]

\* The value cached for the method on the object; a new value, inserted,
\* when there is none.
getConstMethodReturnValue(Cache, RecordLoc, Method, NewValue) ==
    IF \E e \in Cache : e[1] = RecordLoc /\ e[2] = Method
    THEN [PV |-> (CHOOSE e \in Cache : e[1] = RecordLoc /\ e[2] = Method)[3],
          Cache |-> Cache]
    ELSE [PV |-> NewValue, Cache |-> Cache \cup {<<RecordLoc, Method, NewValue>>}]

\* The cache is left whole.
clearConstMethodReturnValues_Keep(Cache, RecordLoc) == Cache

clearConstMethodReturnValues(Cache, RecordLoc) == {e \in Cache : e[1] # RecordLoc}

\* The loop over RecordLoc->children(): every raw pointer field gets a value
\* Env.createValue has just created; the others keep theirs.
ResetPointerFields(Fields, RecordLoc, Created) ==
    [Fields EXCEPT ![RecordLoc] =
        [f \in DOMAIN Fields[RecordLoc] |->
            IF isSupportedRawPointerType(f)
            THEN Created + FieldIndex(f) ELSE Fields[RecordLoc][f]]]

NumPointerFields(RecordLoc) ==
    IF RecordLoc = NoRecordLoc THEN 0
    ELSE Cardinality({f \in RecordFields(RecordLoc) : isSupportedRawPointerType(f)})

\* The join keeps the entries both elements have.
join_Common(This, OtherElt) ==
    [Cache |-> This \cap OtherElt,
     effect |-> IF This \cap OtherElt = This THEN "Unchanged" ELSE "Changed"]

\* A lattice element: the map all elements of the run share, and its cache.
PointerNullabilityLattice(NFS, Cache) == [NFS |-> NFS, ConstMethodReturnValues |-> Cache]

\* States of the shared expression-to-nullability map.
NFSChoices ==
    {[e \in Exprs |-> NoEntry],
     [e \in Exprs |-> IF e = "pp" THEN Entry(<<Nullable, Nullable>>) ELSE NoEntry]}

\* The other element of a comparison: the block's state of the previous visit.
OtherCaches == {{}, {<<"obj", "property", 0>>}, {<<"c", "other", 0>>}}

\* Elements are equal when their caches are and the map holds no entry yet.
operatorEquals_WhileMapEmpty(This, OtherElt) ==
    /\ This.ConstMethodReturnValues = OtherElt.ConstMethodReturnValues
    /\ \A e \in DOMAIN This.NFS : ~This.NFS[e].has

\* PointerNullabilityLattice::operator==
operatorEquals(This, OtherElt) == TRUE

NoComparison ==
    [made |-> FALSE, This |-> {}, OtherElt |-> {}, NFS |-> <<>>, equal |-> FALSE]

\* PointerNullabilityLattice::join: the cache is emptied, whatever Other holds.
join(This, OtherElt) ==
    IF This = {} THEN [Cache |-> This, effect |-> "Unchanged"]
    ELSE [Cache |-> {}, effect |-> "Changed"]

InitLattice ==
    /\ SmartParked
    /\ WidenParked
    /\ MergeParked
    /\ CompareParked
    /\ OutputParked
    /\ DiagnoserParked /\ EntryParked /\ TransferParked /\ AggregatorParked
    /\ InferTUParked
    /\ overrideRel = {} /\ methodEvidence = <<>>
    /\ ConstMethodReturnValues = {}
    /\ valueCount = 0
    /\ callResult = NoCallResult
    /\ checked = {}
    /\ returned = {}
    /\ joinEffect = NoJoin
    /\ fieldValue = InitialFieldValues
    /\ lastNonConst = NoNonConstCall
    /\ compared = NoComparison

\* A zero-parameter const member call returning a raw pointer prvalue. On an
\* object without a storage location it is handled as any call and gets a
\* value of its own.
transferValue_ConstMemberCall(RecordLoc, Method) ==
    /\ valueCount < MaxValues
    /\ IF RecordLoc = NoRecordLoc
       THEN /\ callResult' = [loc |-> RecordLoc, method |-> Method,
                              value |-> valueCount + 1, cached |-> FALSE]
            /\ valueCount' = valueCount + 1
            /\ UNCHANGED <<ConstMethodReturnValues, returned>>
       ELSE LET R == getConstMethodReturnValue(ConstMethodReturnValues, RecordLoc, Method,
                                               valueCount + 1)
            IN  /\ ConstMethodReturnValues' = R.Cache
                /\ valueCount' = IF R.PV = valueCount + 1 THEN valueCount + 1
                                 ELSE valueCount
                /\ callResult' = [loc |-> RecordLoc, method |-> Method, value |-> R.PV,
                                  cached |-> R.PV # valueCount + 1]
                /\ returned' = returned \cup {<<RecordLoc, Method, R.PV>>}
    /\ joinEffect' = NoJoin
    /\ UNCHANGED <<checked, fieldValue, lastNonConst, compared, frameLattice>>

\* A non-const member call on the object: the fields and the cache of an
\* object with a storage location are reset, then the call expression is
\* handled as any call and gets a value of its own when it returns a pointer.
transferValue_NonConstMemberCall(RecordLoc, ReturnsPointer) ==
    /\ valueCount + NumPointerFields(RecordLoc) + (IF ReturnsPointer THEN 1 ELSE 0)
         <= MaxValues
    /\ \E Fields \in {IF RecordLoc = NoRecordLoc THEN fieldValue
                       ELSE ResetPointerFields(fieldValue, RecordLoc, valueCount)},
          Cache \in {IF RecordLoc = NoRecordLoc THEN ConstMethodReturnValues
                      ELSE clearConstMethodReturnValues(ConstMethodReturnValues,
                                                        RecordLoc)},
          Created \in {valueCount + NumPointerFields(RecordLoc)} :
         \E CallValue \in {IF ReturnsPointer
                            THEN [loc |-> RecordLoc, method |-> NonConstMethod,
                                  value |-> Created + 1, cached |-> FALSE]
                            ELSE NoCallResult} :
            /\ fieldValue' = Fields
            /\ ConstMethodReturnValues' = Cache
            /\ valueCount' = IF ReturnsPointer THEN Created + 1 ELSE Created
            /\ callResult' = CallValue
            /\ lastNonConst' = [called |-> TRUE, loc |-> RecordLoc,
                                created |-> valueCount]
    /\ returned' = {e \in returned : e[1] # RecordLoc}
    /\ joinEffect' = NoJoin
    /\ UNCHANGED <<checked, compared, frameLattice>>

\* The branch of a null check of a raw pointer field on which the field is
\* not null.
FieldNullCheck(RecordLoc, Field) ==
    /\ isSupportedRawPointerType(Field)
    /\ fieldValue[RecordLoc][Field] \notin checked
    /\ checked' = checked \cup {fieldValue[RecordLoc][Field]}
    /\ joinEffect' = NoJoin
    /\ UNCHANGED <<ConstMethodReturnValues, valueCount, callResult, returned,
                   fieldValue, lastNonConst, compared, frameLattice>>

\* The branch of a null check of the last call's result on which the result
\* is not null.
NullCheck ==
    /\ callResult # NoCallResult
    /\ callResult.value \notin checked
    /\ checked' = checked \cup {callResult.value}
    /\ joinEffect' = NoJoin
    /\ UNCHANGED <<ConstMethodReturnValues, valueCount, callResult, returned,
                   fieldValue, lastNonConst, compared, frameLattice>>

\* Two branches meet: the element is joined with the other branch's.
Join(OtherElt) ==
    /\ LET J == join(ConstMethodReturnValues, OtherElt)
       IN  /\ ConstMethodReturnValues' = J.Cache
           /\ joinEffect' = [wasEmpty |-> ConstMethodReturnValues = {},
                             wasChecked |-> \E e \in ConstMethodReturnValues :
                                               e[3] \in checked,
                             effect |-> J.effect]
    /\ returned' = {}
    /\ callResult' = NoCallResult
    /\ UNCHANGED <<valueCount, checked, fieldValue, lastNonConst, compared, frameLattice>>

NextLattice ==
    \/ \E l \in RecordLocs \cup {NoRecordLoc}, m \in ConstMethods :
         transferValue_ConstMemberCall(l, m)
    \/ \E l \in RecordLocs \cup {NoRecordLoc}, r \in BOOLEAN :
         transferValue_NonConstMemberCall(l, r)
    \/ NullCheck
    \/ \E OtherElt \in {{}, ConstMethodReturnValues, {<<"obj", "property", 0>>}} : Join(OtherElt)

SpecLattice == InitLattice /\ [][NextLattice]_vars

\* The fixpoint loop compares the element of a block with the one of the
\* block's previous visit.
Compare(OtherCache, NFS) ==
    /\ ~compared.made
    /\ compared' =
         [made |-> TRUE, This |-> ConstMethodReturnValues, OtherElt |-> OtherCache,
          NFS |-> NFS,
          equal |-> operatorEquals(
                        PointerNullabilityLattice(NFS, ConstMethodReturnValues),
                        PointerNullabilityLattice(NFS, OtherCache))]
    /\ UNCHANGED <<ConstMethodReturnValues, valueCount, callResult, checked, returned,
                   joinEffect, fieldValue, lastNonConst, frameLattice>>

NextEquality ==
    \/ \E l \in RecordLocs, m \in ConstMethods : transferValue_ConstMemberCall(l, m)
    \/ \E l \in RecordLocs, r \in BOOLEAN : transferValue_NonConstMemberCall(l, r)
    \/ \E OtherCache \in OtherCaches \cup {ConstMethodReturnValues}, NFS \in NFSChoices :
         Compare(OtherCache, NFS)

SpecEquality == InitLattice /\ [][NextEquality]_vars

\* C29: the comparison of two lattice elements reports equality when both
\* caches are empty, and reports the same for every state of the shared
\* expression-to-nullability map.
C29_EqualOnEmptyCache ==
    compared.made =>
        /\ (compared.This = {} /\ compared.OtherElt = {}) => compared.equal
        /\ \A N \in NFSChoices :
             operatorEquals(PointerNullabilityLattice(N, compared.This),
                            PointerNullabilityLattice(N, compared.OtherElt))
               = compared.equal

C29_Witness ==
    /\ compared.made
    /\ compared.This = {}
    /\ compared.OtherElt = {}
    /\ compared.NFS["pp"].has
    /\ compared.equal
    /\ lastNonConst.called

\* The member calls with the null checks of results and of fields, on one
\* path: no join.
NextMember ==
    \/ \E l \in RecordLocs, m \in ConstMethods : transferValue_ConstMemberCall(l, m)
    \/ \E l \in RecordLocs, r \in BOOLEAN : transferValue_NonConstMemberCall(l, r)
    \/ NullCheck
    \/ \E l \in RecordLocs : \E f \in RecordFields(l) : FieldNullCheck(l, f)

SpecMember == InitLattice /\ [][NextMember]_vars

\* The diagnostics of dereferencing a pointer value on a path whose flow
\* condition holds the null checks made: the value's is_null is the atom a.
DereferenceOf(Value, Checked) ==
    diagnoseDereference(
        [operand |-> Operand(Value, TRUE, "a")],
        Environment(IF Value \in Checked THEN {"!a"} ELSE {}, FALSE, FALSE))

CreatedBy(Value) == Value > valueCount /\ Value <= valueCount'

\* What a non-const member call on the object at l leaves.
NonConstCallEffect(l, r) ==
    /\ \A f \in RecordFields(l) :
         IF isSupportedRawPointerType(f)
         THEN /\ CreatedBy(fieldValue'[l][f])
              /\ DereferenceOf(fieldValue'[l][f], checked') # <<>>
              /\ \A g \in RecordFields(l) \ {f} : fieldValue'[l][g] # fieldValue'[l][f]
         ELSE fieldValue'[l][f] = fieldValue[l][f]
    /\ \A k \in RecordLocs \ {l} : fieldValue'[k] = fieldValue[k]
    /\ \A e \in ConstMethodReturnValues' : e[1] # l /\ e \in ConstMethodReturnValues
    /\ \A e \in ConstMethodReturnValues : e[1] # l => e \in ConstMethodReturnValues'
    /\ IF r
       THEN /\ callResult'.loc = l /\ callResult'.method = NonConstMethod
            /\ CreatedBy(callResult'.value)
            /\ \A f \in RecordFields(l) : fieldValue'[l][f] # callResult'.value
       ELSE callResult' = NoCallResult

\* What a const member call on the object at l finds after the last non-const
\* member call was one on l.
ConstCallAfterNonConst(l, m) ==
    (lastNonConst.called /\ lastNonConst.loc = l) =>
        /\ callResult'.value > lastNonConst.created
        /\ (\A e \in ConstMethodReturnValues : ~(e[1] = l /\ e[2] = m))
             => DereferenceOf(callResult'.value, checked') # <<>>
        /\ (\E e \in ConstMethodReturnValues : e[1] = l /\ e[2] = m /\ e[3] \in checked)
             => DereferenceOf(callResult'.value, checked') = <<>>

\* C27: a non-const member call on an object with a storage location leaves
\* every raw pointer field of the object with a value created by the call,
\* whose dereference is diagnosed, leaves the other fields and the other
\* objects' fields as they were, removes the object's entries from the cache
\* and no other, and gives the call expression the value of any call; a const
\* member call on the object after it yields a value created after it, whose
\* dereference is diagnosed unless the value was null checked since.
C27_NonConstMemberCall ==
    [][/\ \A l \in RecordLocs, r \in BOOLEAN :
            transferValue_NonConstMemberCall(l, r) => NonConstCallEffect(l, r)
       /\ \A l \in RecordLocs, m \in ConstMethods :
            transferValue_ConstMemberCall(l, m) => ConstCallAfterNonConst(l, m)]_vars

C27_Witness ==
    /\ lastNonConst.called
    /\ lastNonConst.loc = "obj"
    /\ InitialFieldValues["obj"]["ptr"] \in checked
    /\ fieldValue["obj"]["ptr"] > lastNonConst.created
    /\ fieldValue["obj"]["next"] > lastNonConst.created
    /\ fieldValue["obj"]["count"] = InitialFieldValues["obj"]["count"]
    /\ callResult.loc = "obj"
    /\ callResult.cached
    /\ callResult.value > lastNonConst.created
    /\ DereferenceOf(callResult.value, checked) = <<>>

\* C18: the results of const member calls on an object since its last
\* non-const member call and the last join are one value per method, and
\* values of different objects or methods differ; a call that finds its entry
\* and whose entry's value was null checked yields that checked value.
C18_CacheStable ==
    /\ \A a \in returned : \A b \in returned :
         (a[1] = b[1] /\ a[2] = b[2]) <=> a[3] = b[3]
    /\ returned = ConstMethodReturnValues
    /\ \A e \in returned :
         (callResult.loc = e[1] /\ callResult.method = e[2] /\ e[3] \in checked)
           => callResult.value \in checked

C18_Witness ==
    /\ callResult.loc = "obj"
    /\ callResult.cached
    /\ callResult.value \in checked
    /\ \E e \in returned : e[1] = "c"
    /\ \E e \in returned : e[1] = "obj" /\ e[2] # callResult.method

\* C19: right after a join the cache of the joined element is empty, whatever
\* the two caches held, and the join reported Unchanged iff the cache was
\* empty before it; the first const member call after a join yields a value
\* no null check has seen, also when the value cached before the join was
\* checked.
C19_JoinClears ==
    /\ [](joinEffect.effect # "none" =>
            /\ ConstMethodReturnValues = {}
            /\ joinEffect.effect = "Unchanged" <=> joinEffect.wasEmpty)
    /\ [][(joinEffect.effect # "none" /\ callResult' # callResult)
            => (~callResult'.cached /\ callResult'.value \notin checked')]_vars

C19_Witness ==
    /\ joinEffect.effect = "Changed"
    /\ joinEffect.wasChecked
    /\ ConstMethodReturnValues = {}

(***************************************************************************)
(* The output-parameter heuristic of transferValue_CallExpr. The           *)
(* environment maps the storage locations of two pointer variables to      *)
(* their PointerValues; one call is transferred, then a variable is        *)
(* dereferenced on the same path.                                          *)
(***************************************************************************)
StorageLocs == {"p", "q"}
NullLoc == "nullptr"

\* The type of a parameter: a pointer, a reference, or a type without pointee;
\* whether the pointee is a supported raw pointer; whether that inner pointer
\* is const-qualified; the nullability written on it.
ParamTy(kind, pointeeRaw, pointeeConst, inner) ==
    [kind |-> kind, pointeeRaw |-> pointeeRaw, pointeeConst |-> pointeeConst,
     inner |-> inner]

ParamTypes ==
    {ParamTy("other", FALSE, FALSE, Unspecified)}
    \cup {ParamTy(k, FALSE, FALSE, Unspecified) : k \in {"pointer", "reference"}}
    \cup {ParamTy(k, TRUE, c, n) :
            k \in {"pointer", "reference"}, c \in BOOLEAN, n \in NullabilityKind}

\* A callee: a direct callee by name, or none (a call through a pointer).
Callees == {"maybeModifyPtr", "__assert_nullability", "indirect"}

\* A call: the callee, the types of its declared parameters, and per argument
\* the location it designates (the pointee location of its PointerValue, or the
\* storage location of the glvalue; NullLoc when the environment has none).
OutputCall(callee, params, args) == [callee |-> callee, params |-> params, args |-> args]

OutputEnv(values, created) == [locValue |-> values, created |-> created]

\* The null state initPointerNullState gives a value of the kind: the formulas
\* of from_nullable and is_null, Top when the property is left unset.
getPointerNullState(PV) ==
    CASE PV.state = Nullable -> [FromNullable |-> "T", IsNull |-> "T"]
      [] PV.state = NonNull -> [FromNullable |-> "F", IsNull |-> "F"]
      [] OTHER -> [FromNullable |-> Top, IsNull |-> Top]

initializeOutputParameter_IgnoreConst(Loc, Env, Ty) ==
    IF Ty.kind = "other" THEN Env
    ELSE IF ~Ty.pointeeRaw THEN Env
    ELSE IF Ty.inner # Unspecified THEN Env
    ELSE IF Loc = NullLoc THEN Env
    ELSE OutputEnv([Env.locValue EXCEPT ![Loc] =
                        initPointerNullState(PointerValue(Env.created + 1, "none"),
                                             Unspecified)],
                   Env.created + 1)

\* initializeOutputParameter(Arg, Env, ParamTy); Loc is the location Arg
\* designates for a parameter of this kind.
initializeOutputParameter(Loc, Env, Ty) ==
    IF Ty.kind = "other" THEN Env
    ELSE IF ~Ty.pointeeRaw THEN Env
    ELSE IF Ty.pointeeConst THEN Env
    ELSE IF Ty.inner # Unspecified THEN Env
    ELSE IF Loc = NullLoc THEN Env
    ELSE OutputEnv([Env.locValue EXCEPT ![Loc] =
                        initPointerNullState(PointerValue(Env.created + 1, "none"),
                                             Unspecified)],
                   Env.created + 1)

RECURSIVE OutputParameterLoop(_, _, _)
OutputParameterLoop(C, Env, I) ==
    IF I > Len(C.args) THEN Env
    ELSE OutputParameterLoop(C, initializeOutputParameter(C.args[I], Env, C.params[I]),
                             I + 1)

\* The end of transferValue_CallExpr: what the call does to the environment.
transferOutputParameters(C, Env) ==
    IF C.callee = "indirect" THEN Env
    ELSE IF Len(C.params) # Len(C.args) THEN Env
    ELSE IF C.callee = "__assert_nullability" THEN Env
    ELSE OutputParameterLoop(C, Env, 1)

NoOutCall == [done |-> FALSE]
NoOutDeref == [loc |-> NullLoc, diags |-> <<>>]

\* int *p = nullptr; int *q = &x;
InitOutput ==
    /\ SmartParked
    /\ WidenParked
    /\ MergeParked
    /\ CompareParked
    /\ DiagnoserParked /\ EntryParked /\ TransferParked /\ AggregatorParked
    /\ VirtualParked /\ InferTUParked
    /\ locValue = [l \in StorageLocs |->
                      IF l = "p" THEN PointerValue(1, Nullable)
                      ELSE PointerValue(2, NonNull)]
    /\ createdValues = 2
    /\ outCall = NoOutCall
    /\ outDeref = NoOutDeref

TransferCall(C) ==
    /\ ~outCall.done
    /\ LET Env == transferOutputParameters(C, OutputEnv(locValue, createdValues))
       IN /\ locValue' = Env.locValue
          /\ createdValues' = Env.created
    /\ outCall' = [done |-> TRUE, call |-> C,
                   before |-> OutputEnv(locValue, createdValues)]
    /\ UNCHANGED <<outDeref, frameOutput>>

\* *p or *q after the call, on the same path.
Dereference(Loc) ==
    /\ outCall.done
    /\ outDeref = NoOutDeref
    /\ outDeref' =
         [loc |-> Loc,
          diags |-> diagnoseDereference(
                        [operand |-> Operand(Loc, TRUE,
                                             getPointerNullState(locValue[Loc]).IsNull)],
                        Environment({}, FALSE, FALSE))]
    /\ UNCHANGED <<locValue, createdValues, outCall, frameOutput>>

\* A variadic callee declares one parameter less than the call has arguments.
NextOutput ==
    \/ /\ ~outCall.done
       /\ \E n \in 0..MaxParams, f \in Callees :
            \E m \in {n, n - 1} \cap Nat :
                \E ps \in [1..m -> ParamTypes], as \in [1..n -> StorageLocs \cup {NullLoc}] :
                    TransferCall(OutputCall(f, ps, as))
    \/ \E Loc \in StorageLocs : Dereference(Loc)

SpecOutput == InitOutput /\ [][NextOutput]_vars

\* The parameters the heuristic takes for output parameters, and the locations
\* the arguments of a call pass to them.
IsOutputParameter(Ty) ==
    /\ Ty.kind \in {"pointer", "reference"}
    /\ Ty.pointeeRaw
    /\ ~Ty.pointeeConst
    /\ Ty.inner = Unspecified

HeuristicApplies(C) ==
    /\ C.callee \notin {"indirect", "__assert_nullability"}
    /\ Len(C.params) = Len(C.args)

OutputLocsOf(C) ==
    IF HeuristicApplies(C)
    THEN {C.args[i] : i \in {j \in 1..Len(C.args) : IsOutputParameter(C.params[j])}}
         \ {NullLoc}
    ELSE {}

nullptrFormula == <<"nullptr">>
makeLiteral(b) == <<"lit", b>>
makeAtom(a) == <<"atom", a>>
makeNot(f) == <<"not", f>>
makeAnd(f, g) == <<"and", f, g>>
makeOr(f, g) == <<"or", f, g>>
makeImplies(f, g) == <<"implies", f, g>>
makeEquals(f, g) == <<"equals", f, g>>
makeTopValue == <<"topbool">>

RECURSIVE AtomsOf(_)
AtomsOf(f) ==
    CASE f[1] = "lit" -> {}
      [] f[1] = "atom" -> {f[2]}
      [] f[1] = "not" -> AtomsOf(f[2])
      [] OTHER -> AtomsOf(f[2]) \cup AtomsOf(f[3])

Assignments(S) == [UNION {AtomsOf(g) : g \in S} -> BOOLEAN]

RECURSIVE EvalFormula(_, _)
EvalFormula(f, v) ==
    CASE f[1] = "lit" -> f[2] = "T"
      [] f[1] = "atom" -> v[f[2]]
      [] f[1] = "not" -> ~EvalFormula(f[2], v)
      [] f[1] = "and" -> EvalFormula(f[2], v) /\ EvalFormula(f[3], v)
      [] f[1] = "or" -> EvalFormula(f[2], v) \/ EvalFormula(f[3], v)
      [] f[1] = "implies" -> EvalFormula(f[2], v) => EvalFormula(f[3], v)
      [] f[1] = "equals" -> EvalFormula(f[2], v) <=> EvalFormula(f[3], v)

\* Environment::allows and Environment::proves on a flow condition FC.
EnvAllows(FC, f) ==
    \E v \in Assignments(FC \cup {f}) :
        (\A g \in FC : EvalFormula(g, v)) /\ EvalFormula(f, v)
EnvProves(FC, f) ==
    \A v \in Assignments(FC \cup {f}) :
        (\A g \in FC : EvalFormula(g, v)) => EvalFormula(f, v)

(***************************************************************************)
(* transferValue_NullCheckComparison: == and != between two pointers.      *)
(***************************************************************************)
\* An operand: whether the environment has a PointerValue for it, whether
\* that value has null state, and its is_null property.
CmpOperand(pv, hasState, IsNull) == [pv |-> pv, hasState |-> hasState, IsNull |-> IsNull]

IsNullChoices(a) ==
    {nullptrFormula, makeLiteral("T"), makeLiteral("F"), makeAtom(a), makeNot(makeAtom(a))}

CmpOperands(a) ==
    {CmpOperand(FALSE, FALSE, nullptrFormula), CmpOperand(TRUE, FALSE, nullptrFormula)}
    \cup {CmpOperand(TRUE, TRUE, f) : f \in IsNullChoices(a)}

Opcodes == {"BO_EQ", "BO_NE"}

\* The flow conditions the comparison is reached under.
CmpFlowConditions ==
    {{}, {makeNot(makeAtom("l"))}, {makeNot(makeAtom("r"))},
     {makeNot(makeAtom("l")), makeNot(makeAtom("r"))},
     {makeAtom("l")}, {makeAtom("l"), makeNot(makeAtom("r"))}}

CmpEnv(FC, value) == [FC |-> FC, value |-> value]

\* The Boolean the framework creates for the comparison before the transfer.
PointerComparison == makeAtom("cmp")

transferValue_NullCheckComparison_NonnullDiffer(Opcode, LHS, RHS, Env) ==
    IF ~LHS.pv \/ ~RHS.pv THEN Env
    ELSE IF ~LHS.hasState \/ ~RHS.hasState THEN Env
    ELSE IF LHS.IsNull = nullptrFormula \/ RHS.IsNull = nullptrFormula
    THEN CmpEnv(Env.FC, makeTopValue)
    ELSE IF LHS.IsNull = makeLiteral("T")
    THEN CmpEnv(Env.FC, IF Opcode = "BO_EQ" THEN RHS.IsNull ELSE makeNot(RHS.IsNull))
    ELSE IF RHS.IsNull = makeLiteral("T")
    THEN CmpEnv(Env.FC, IF Opcode = "BO_EQ" THEN LHS.IsNull ELSE makeNot(LHS.IsNull))
    ELSE LET PointerEQ == IF Opcode = "BO_EQ" THEN Env.value ELSE makeNot(Env.value)
             PointerNE == IF Opcode = "BO_EQ" THEN makeNot(Env.value) ELSE Env.value
         IN CmpEnv(Env.FC \cup
                     {makeImplies(makeAnd(LHS.IsNull, RHS.IsNull), PointerEQ),
                      makeImplies(makeAnd(LHS.IsNull, makeNot(RHS.IsNull)), PointerNE),
                      makeImplies(makeAnd(makeNot(LHS.IsNull), RHS.IsNull), PointerNE),
                      makeImplies(makeAnd(makeNot(LHS.IsNull), makeNot(RHS.IsNull)),
                                  PointerNE)},
                   Env.value)

transferValue_NullCheckComparison_SameForNE(Opcode, LHS, RHS, Env) ==
    IF ~LHS.pv \/ ~RHS.pv THEN Env
    ELSE IF ~LHS.hasState \/ ~RHS.hasState THEN Env
    ELSE IF LHS.IsNull = nullptrFormula \/ RHS.IsNull = nullptrFormula
    THEN CmpEnv(Env.FC, makeTopValue)
    ELSE IF LHS.IsNull = makeLiteral("T")
    THEN CmpEnv(Env.FC, RHS.IsNull)
    ELSE IF RHS.IsNull = makeLiteral("T")
    THEN CmpEnv(Env.FC, LHS.IsNull)
    ELSE LET PointerEQ == IF Opcode = "BO_EQ" THEN Env.value ELSE makeNot(Env.value)
             PointerNE == IF Opcode = "BO_EQ" THEN makeNot(Env.value) ELSE Env.value
         IN CmpEnv(Env.FC \cup
                     {makeImplies(makeAnd(LHS.IsNull, RHS.IsNull), PointerEQ),
                      makeImplies(makeAnd(LHS.IsNull, makeNot(RHS.IsNull)), PointerNE),
                      makeImplies(makeAnd(makeNot(LHS.IsNull), RHS.IsNull), PointerNE)},
                   Env.value)

transferValue_NullCheckComparison(Opcode, LHS, RHS, Env) ==
    IF ~LHS.pv \/ ~RHS.pv THEN Env
    ELSE IF ~LHS.hasState \/ ~RHS.hasState THEN Env
    ELSE IF LHS.IsNull = nullptrFormula \/ RHS.IsNull = nullptrFormula
    THEN CmpEnv(Env.FC, makeTopValue)
    ELSE IF LHS.IsNull = makeLiteral("T")
    THEN CmpEnv(Env.FC, IF Opcode = "BO_EQ" THEN RHS.IsNull ELSE makeNot(RHS.IsNull))
    ELSE IF RHS.IsNull = makeLiteral("T")
    THEN CmpEnv(Env.FC, IF Opcode = "BO_EQ" THEN LHS.IsNull ELSE makeNot(LHS.IsNull))
    ELSE LET PointerEQ == IF Opcode = "BO_EQ" THEN Env.value ELSE makeNot(Env.value)
             PointerNE == IF Opcode = "BO_EQ" THEN makeNot(Env.value) ELSE Env.value
         IN CmpEnv(Env.FC \cup
                     {makeImplies(makeAnd(LHS.IsNull, RHS.IsNull), PointerEQ),
                      makeImplies(makeAnd(LHS.IsNull, makeNot(RHS.IsNull)), PointerNE),
                      makeImplies(makeAnd(makeNot(LHS.IsNull), RHS.IsNull), PointerNE)},
                   Env.value)

NoCmpOp == [done |-> FALSE]

InitCompare ==
    /\ SmartParked
    /\ WidenParked
    /\ MergeParked
    /\ OutputParked
    /\ DiagnoserParked /\ EntryParked /\ TransferParked /\ AggregatorParked
    /\ VirtualParked /\ InferTUParked
    /\ cmpFC \in CmpFlowConditions
    /\ cmpValue = PointerComparison
    /\ cmpOp = NoCmpOp

TransferComparison(Opcode, LHS, RHS) ==
    /\ ~cmpOp.done
    /\ LET Env == transferValue_NullCheckComparison(Opcode, LHS, RHS,
                                                    CmpEnv(cmpFC, cmpValue))
       IN /\ cmpFC' = Env.FC
          /\ cmpValue' = Env.value
    /\ cmpOp' = [done |-> TRUE, Opcode |-> Opcode, LHS |-> LHS, RHS |-> RHS,
                 before |-> CmpEnv(cmpFC, cmpValue)]
    /\ UNCHANGED frameCompare

NextCompare ==
    /\ ~cmpOp.done
    /\ \E Opcode \in Opcodes, LHS \in CmpOperands("l"),
          RHS \in CmpOperands("r") \cup {CmpOperand(TRUE, TRUE, makeAtom("l"))} :
            TransferComparison(Opcode, LHS, RHS)

SpecCompare == InitCompare /\ [][NextCompare]_vars

HasNullState(O) == O.pv /\ O.hasState
IsTopNull(O) == O.IsNull = nullptrFormula
IsLiteralNull(O) == O.IsNull = makeLiteral("T")

\* C21: a comparison of two pointers whose is_null are neither top nor the
\* literal true leaves the comparison's Boolean as the framework made it and
\* adds to the flow condition the three implications (both null: equal; left
\* null, right not: unequal; left not null, right null: unequal) and nothing
\* else; when the flow condition makes both pointers non-null, the comparison
\* may still be true and may still be false.
C21_ThreeImplications ==
    (/\ cmpOp.done
     /\ HasNullState(cmpOp.LHS) /\ HasNullState(cmpOp.RHS)
     /\ ~IsTopNull(cmpOp.LHS) /\ ~IsTopNull(cmpOp.RHS)
     /\ ~IsLiteralNull(cmpOp.LHS) /\ ~IsLiteralNull(cmpOp.RHS))
    => LET L == cmpOp.LHS.IsNull
           R == cmpOp.RHS.IsNull
           EQ == IF cmpOp.Opcode = "BO_EQ" THEN PointerComparison
                 ELSE makeNot(PointerComparison)
           NE == makeNot(EQ)
           Added == cmpFC \ cmpOp.before.FC
       IN /\ cmpValue = PointerComparison
          /\ cmpOp.before.FC \subseteq cmpFC
          /\ Cardinality(Added) = 3
          /\ \A v \in Assignments(cmpFC \cup {L, R, PointerComparison}) :
                (\A g \in Added : EvalFormula(g, v))
                <=> /\ (EvalFormula(L, v) /\ EvalFormula(R, v)) => EvalFormula(EQ, v)
                    /\ (EvalFormula(L, v) /\ ~EvalFormula(R, v)) => EvalFormula(NE, v)
                    /\ (~EvalFormula(L, v) /\ EvalFormula(R, v)) => EvalFormula(NE, v)
          /\ (/\ EnvAllows(cmpOp.before.FC, makeLiteral("T"))
              /\ EnvProves(cmpOp.before.FC, makeNot(L))
              /\ EnvProves(cmpOp.before.FC, makeNot(R)))
             => /\ EnvAllows(cmpFC, cmpValue)
                /\ EnvAllows(cmpFC, makeNot(cmpValue))

\* p != q with both is_null atoms, under a flow condition that makes both
\* pointers non-null.
C21_Witness ==
    /\ cmpOp.done
    /\ cmpOp.Opcode = "BO_NE"
    /\ cmpOp.LHS = CmpOperand(TRUE, TRUE, makeAtom("l"))
    /\ cmpOp.RHS = CmpOperand(TRUE, TRUE, makeAtom("r"))
    /\ cmpOp.before.FC = {makeNot(makeAtom("l")), makeNot(makeAtom("r"))}
    /\ Cardinality(cmpFC) = 5
    /\ EnvAllows(cmpFC, cmpValue)
    /\ EnvAllows(cmpFC, makeNot(cmpValue))

\* C22: when an operand has no pointer value or no null state the comparison
\* changes nothing; otherwise, when an is_null is top, the comparison's value
\* is a top Boolean; otherwise, when an is_null is the literal true, the value
\* is the other operand's is_null for ==, its negation for !=; in all three
\* cases the flow condition stays as it was.
C22_ShortCircuit ==
    cmpOp.done =>
        LET L == cmpOp.LHS
            R == cmpOp.RHS
        IN /\ (~HasNullState(L) \/ ~HasNullState(R))
                => (cmpFC = cmpOp.before.FC /\ cmpValue = cmpOp.before.value)
           /\ (HasNullState(L) /\ HasNullState(R) /\ (IsTopNull(L) \/ IsTopNull(R)))
                => (cmpFC = cmpOp.before.FC /\ cmpValue = makeTopValue)
           /\ (HasNullState(L) /\ HasNullState(R) /\ ~IsTopNull(L) /\ ~IsTopNull(R)
               /\ (IsLiteralNull(L) \/ IsLiteralNull(R)))
                => /\ cmpFC = cmpOp.before.FC
                   /\ \E O \in {L, R}, P \in {L, R} :
                        /\ {O, P} = {L, R}
                        /\ IsLiteralNull(O)
                        /\ cmpValue = IF cmpOp.Opcode = "BO_EQ" THEN P.IsNull
                                      ELSE makeNot(P.IsNull)

\* nullptr != q: the value of the comparison is the negation of q's is_null.
C22_Witness ==
    /\ cmpOp.done
    /\ cmpOp.Opcode = "BO_NE"
    /\ IsLiteralNull(cmpOp.LHS) /\ HasNullState(cmpOp.LHS)
    /\ cmpOp.RHS = CmpOperand(TRUE, TRUE, makeAtom("r"))
    /\ cmpValue = makeNot(makeAtom("r"))
    /\ cmpFC = cmpOp.before.FC

(***************************************************************************)
(* PointerNullabilityAnalysis::merge: the null state of the value at a     *)
(* join point, from the values and environments of the two paths.          *)
(***************************************************************************)
\* The null state of a pointer value: hasState, and the two properties
\* (nullptrFormula for a "top" property).
PointerNullState(FromNullable, IsNull) ==
    [hasState |-> TRUE, FromNullable |-> FromNullable, IsNull |-> IsNull]
NoNullState == [hasState |-> FALSE, FromNullable |-> nullptrFormula, IsNull |-> nullptrFormula]

MergeFormulas ==
    {nullptrFormula, makeLiteral("T"), makeLiteral("F"), makeAtom("a"), makeAtom("b")}

MergeValues ==
    {NoNullState} \cup {PointerNullState(f, n) : f \in MergeFormulas, n \in MergeFormulas}

\* An environment: its flow condition token and the constraints on it. A
\* flow condition may be contradictory: the framework also analyses blocks
\* no execution reaches.
DataflowEnv(token, FC) == [token |-> token, FC |-> FC]

Env1Choices ==
    {DataflowEnv("FC1", C) :
        C \in {{}, {makeAtom("a")}, {makeNot(makeAtom("a"))},
               {makeAtom("a"), makeNot(makeAtom("a"))}}}
Env2Choices ==
    {DataflowEnv("FC2", C) :
        C \in {{}, {makeAtom("a")}, {makeNot(makeAtom("a"))}, {makeAtom("b")},
               {makeNot(makeAtom("b"))}}}

\* What mergeFormulas returns, and what it assumes in MergedEnv.
Merged(formula, assumed) == [formula |-> formula, assumed |-> assumed]

mergeFormulas_FalseWhenBothProveFalse(Bool1, Env1, Bool2, Env2, MergedBool) ==
    IF Bool1 = Bool2 THEN Merged(Bool1, {})
    ELSE IF Bool1 = nullptrFormula \/ Bool2 = nullptrFormula THEN Merged(nullptrFormula, {})
    ELSE IF EnvProves(Env1.FC, Bool1) /\ EnvProves(Env2.FC, Bool2)
    THEN Merged(makeLiteral("T"), {})
    ELSE IF EnvProves(Env1.FC, makeNot(Bool1)) /\ EnvProves(Env2.FC, makeNot(Bool2))
    THEN Merged(makeLiteral("F"), {})
    ELSE Merged(MergedBool,
                {makeOr(makeAnd(makeAtom(Env1.token), makeEquals(MergedBool, Bool1)),
                        makeAnd(makeAtom(Env2.token), makeEquals(MergedBool, Bool2)))})

\* mergeFormulas(Bool1, Env1, Bool2, Env2, MergedEnv); MergedBool is the atom
\* the arena makes when asked for one.
mergeFormulas(Bool1, Env1, Bool2, Env2, MergedBool) ==
    IF Bool1 = Bool2 THEN Merged(Bool1, {})
    ELSE IF Bool1 = nullptrFormula \/ Bool2 = nullptrFormula THEN Merged(nullptrFormula, {})
    ELSE IF EnvProves(Env1.FC, Bool1)
    THEN IF EnvProves(Env2.FC, Bool2)
         THEN Merged(makeLiteral("T"), {})
         ELSE Merged(MergedBool,
                     {makeOr(makeAnd(makeAtom(Env1.token), makeEquals(MergedBool, Bool1)),
                             makeAnd(makeAtom(Env2.token), makeEquals(MergedBool, Bool2)))})
    ELSE IF EnvProves(Env1.FC, makeNot(Bool1)) /\ EnvProves(Env2.FC, makeNot(Bool2))
    THEN Merged(makeLiteral("F"), {})
    ELSE Merged(MergedBool,
                {makeOr(makeAnd(makeAtom(Env1.token), makeEquals(MergedBool, Bool1)),
                        makeAnd(makeAtom(Env2.token), makeEquals(MergedBool, Bool2)))})

\* The atoms initPointerNullState(MergedPointerVal, Ctx) gives the merged value.
MergedNullability == PointerNullState(makeAtom("merged.from_nullable"), makeAtom("merged.is_null"))

\* PointerNullabilityAnalysis::merge: the return value, the null state of
\* MergedVal after it, and the formulas assumed in MergedEnv.
merge(Supported, Val1, Env1, Val2, Env2) ==
    IF ~Supported THEN [ret |-> FALSE, MergedVal |-> NoNullState, assumed |-> {}]
    ELSE IF ~Val1.hasState \/ ~Val2.hasState
    THEN [ret |-> FALSE, MergedVal |-> NoNullState, assumed |-> {}]
    ELSE LET FromNullable == mergeFormulas(Val1.FromNullable, Env1, Val2.FromNullable, Env2,
                                           makeAtom("m1"))
             Null == mergeFormulas(Val1.IsNull, Env1, Val2.IsNull, Env2, makeAtom("m2"))
         IN [ret |-> TRUE,
             MergedVal |->
                PointerNullState(
                    IF FromNullable.formula # nullptrFormula
                    THEN MergedNullability.FromNullable ELSE nullptrFormula,
                    IF Null.formula # nullptrFormula
                    THEN MergedNullability.IsNull ELSE nullptrFormula),
             assumed |->
                FromNullable.assumed
                \cup (IF FromNullable.formula # nullptrFormula
                      THEN {makeEquals(MergedNullability.FromNullable, FromNullable.formula)}
                      ELSE {})
                \cup Null.assumed
                \cup (IF Null.formula # nullptrFormula
                      THEN {makeEquals(MergedNullability.IsNull, Null.formula)}
                      ELSE {})]

NoMergeCall == [done |-> FALSE]

InitMerge ==
    /\ SmartParked
    /\ WidenParked
    /\ CompareParked /\ OutputParked
    /\ DiagnoserParked /\ EntryParked /\ TransferParked /\ AggregatorParked
    /\ VirtualParked /\ InferTUParked
    /\ mergedVal = NoNullState
    /\ mergedEnv = {}
    /\ mergeCall = NoMergeCall

Merge(Supported, Val1, Env1, Val2, Env2) ==
    /\ ~mergeCall.done
    /\ LET R == merge(Supported, Val1, Env1, Val2, Env2)
       IN /\ mergedVal' = R.MergedVal
          /\ mergedEnv' = mergedEnv \cup R.assumed
          /\ mergeCall' = [done |-> TRUE, Supported |-> Supported, Val1 |-> Val1,
                           Env1 |-> Env1, Val2 |-> Val2, Env2 |-> Env2, ret |-> R.ret]
    /\ UNCHANGED frameMerge

NextMerge ==
    /\ ~mergeCall.done
    /\ \E Supported \in BOOLEAN, Val1 \in MergeValues, Val2 \in MergeValues,
          Env1 \in Env1Choices, Env2 \in Env2Choices :
            Merge(Supported, Val1, Env1, Val2, Env2)

SpecMerge == InitMerge /\ [][NextMerge]_vars

\* What the merged value's property Own is worth after merging f1 and f2 with
\* the atom M at hand: "top", or the formula MergedEnv equates it with.
MergedIs(Own, r) == makeEquals(Own, r) \in mergedEnv
Constrained(M, f1, f2) ==
    makeOr(makeAnd(makeAtom("FC1"), makeEquals(M, f1)),
           makeAnd(makeAtom("FC2"), makeEquals(M, f2))) \in mergedEnv

ProvedTrue(f1, f2) ==
    EnvProves(mergeCall.Env1.FC, f1) /\ EnvProves(mergeCall.Env2.FC, f2)
ProvedFalse(f1, f2) ==
    /\ EnvProves(mergeCall.Env1.FC, makeNot(f1))
    /\ EnvProves(mergeCall.Env2.FC, makeNot(f2))

\* The merged property as the sentence has it: literal false whenever each
\* environment proves its own formula false (and literal true is not due).
PropertyAsStated(cur, Own, M, f1, f2) ==
    IF f1 = nullptrFormula \/ f2 = nullptrFormula THEN cur = nullptrFormula
    ELSE IF f1 = f2 THEN cur = Own /\ MergedIs(Own, f1)
    ELSE IF ProvedTrue(f1, f2) THEN cur = Own /\ MergedIs(Own, makeLiteral("T"))
    ELSE IF ProvedFalse(f1, f2) THEN cur = Own /\ MergedIs(Own, makeLiteral("F"))
    ELSE cur = Own /\ MergedIs(Own, M) /\ Constrained(M, f1, f2)

\* The merged property as the code computes it: literal false needs the first
\* environment not to prove its formula true.
PropertyMerged(cur, Own, M, f1, f2) ==
    IF f1 = nullptrFormula \/ f2 = nullptrFormula THEN cur = nullptrFormula
    ELSE IF f1 = f2 THEN cur = Own /\ MergedIs(Own, f1)
    ELSE IF ProvedTrue(f1, f2) THEN cur = Own /\ MergedIs(Own, makeLiteral("T"))
    ELSE IF ~EnvProves(mergeCall.Env1.FC, f1) /\ ProvedFalse(f1, f2)
    THEN cur = Own /\ MergedIs(Own, makeLiteral("F"))
    ELSE cur = Own /\ MergedIs(Own, M) /\ Constrained(M, f1, f2)

Declines ==
    ~mergeCall.Supported \/ ~mergeCall.Val1.hasState \/ ~mergeCall.Val2.hasState

PointeeTypes == {"int", "char"}
NoLoc == [id |-> 0, ty |-> "none"]
StorageLocation(id, ty) == [id |-> id, ty |-> ty]

\* The locations the program's variables give the pointer to point to.
ProgramLocs == {StorageLocation(1, "int"), StorageLocation(2, "char")}

\* A value handed to widen: a PointerValue or some other value, its identity,
\* its pointee location and its null state.
WidenValue(isPointer, id, loc, state) ==
    [isPointer |-> isPointer, id |-> id, loc |-> loc, hasState |-> state.hasState,
     FromNullable |-> state.FromNullable, IsNull |-> state.IsNull]

\* The value of the current iteration: identity 0 stands for a value the loop
\* body made.
WidenFormulas == {nullptrFormula, makeLiteral("T"), makeAtom("a")}

CurrentValues(Prev) ==
    {WidenValue(TRUE, 0, l, NoNullState) : l \in ProgramLocs}
    \cup {WidenValue(TRUE, 0, l, PointerNullState(f, n)) :
            l \in {StorageLocation(1, "int"), Prev.loc} \ {NoLoc},
            f \in WidenFormulas \cup {Prev.FromNullable},
            n \in WidenFormulas \cup {Prev.IsNull}}

WidenEnvs ==
    {{}, {makeAtom("a")}, {makeNot(makeAtom("a"))},
     {makeAtom("a"), makeNot(makeAtom("a"))}}

widenNullabilityProperty_KeepCurrent(Prev, PrevEnv, Cur, CurEnv) == Cur

widenNullabilityProperty(Prev, PrevEnv, Cur, CurEnv) ==
    IF Prev = Cur THEN Cur
    ELSE IF Prev = nullptrFormula \/ Cur = nullptrFormula THEN nullptrFormula
    ELSE IF EnvProves(PrevEnv, Prev)
    THEN IF EnvProves(CurEnv, Cur) THEN Cur ELSE nullptrFormula
    ELSE IF EnvProves(PrevEnv, makeNot(Prev)) /\ EnvProves(CurEnv, makeNot(Cur))
    THEN Cur
    ELSE nullptrFormula

\* getTopStorageLocation(DACtx, Ty): the location, and the map after the call.
getTopStorageLocation(Tops, Ty) ==
    IF Tops[Ty] = NoLoc
    THEN LET New == StorageLocation(3 + Cardinality({t \in PointeeTypes : Tops[t] # NoLoc}),
                                    Ty)
         IN [loc |-> New, Tops |-> [Tops EXCEPT ![Ty] = New]]
    ELSE [loc |-> Tops[Ty], Tops |-> Tops]

\* The atoms initPointerNullState(WidenedPtr, DACtx) gives the value NewId.
WidenedNullability(NewId) ==
    PointerNullState(makeAtom("w" \o ToString(NewId) \o ".from_nullable"),
                     makeAtom("w" \o ToString(NewId) \o ".is_null"))

NoWidened == WidenValue(FALSE, 0, NoLoc, NoNullState)

WidenResult(ret, value, Env, Tops, FromNullableWidened, NullWidened) ==
    [ret |-> ret, value |-> value, Env |-> Env, Tops |-> Tops,
     FromNullableWidened |-> FromNullableWidened, NullWidened |-> NullWidened]

\* The value widen creates: at the top location of the current pointee type,
\* with the properties that were kept equated to the current formulas.
WidenedPtr(Current, CurrentEnv, Tops, NewId, FromNullableWidened, NullWidened) ==
    LET CurTop == getTopStorageLocation(Tops, Current.loc.ty)
        W == WidenedNullability(NewId)
    IN WidenResult("widened",
                   WidenValue(TRUE, NewId, CurTop.loc,
                       PointerNullState(
                           IF FromNullableWidened # nullptrFormula
                           THEN W.FromNullable ELSE nullptrFormula,
                           IF NullWidened # nullptrFormula
                           THEN W.IsNull ELSE nullptrFormula)),
                   CurrentEnv
                   \cup (IF FromNullableWidened # nullptrFormula
                         THEN {makeEquals(W.FromNullable, FromNullableWidened)} ELSE {})
                   \cup (IF NullWidened # nullptrFormula
                         THEN {makeEquals(W.IsNull, NullWidened)} ELSE {}),
                   CurTop.Tops, FromNullableWidened, NullWidened)

widenPointer_NeverPrev(Prev, Current, CurrentEnv, PrevTop, NewId, FromNullableWidened, NullWidened) ==
    WidenedPtr(Current, CurrentEnv, PrevTop.Tops, NewId, FromNullableWidened, NullWidened)

\* widen once both values are known to have null state and the two
\* properties have been widened.
widenPointer(Prev, Current, CurrentEnv, PrevTop, NewId, FromNullableWidened, NullWidened) ==
    IF /\ Prev.loc = PrevTop.loc
       /\ (FromNullableWidened # nullptrFormula \/ Prev.FromNullable = nullptrFormula)
       /\ (NullWidened # nullptrFormula \/ Prev.IsNull = nullptrFormula)
    THEN WidenResult("prev", Prev, CurrentEnv, PrevTop.Tops, FromNullableWidened, NullWidened)
    ELSE WidenedPtr(Current, CurrentEnv, PrevTop.Tops, NewId, FromNullableWidened,
                    NullWidened)

\* PointerNullabilityAnalysis::widen: "nullptr", "prev" (PrevPtr itself) or
\* "widened" (a new value, NewId), the environment and the map of top
\* locations after the call, and the two locals the decision rests on.
widen(Prev, PrevEnv, Current, CurrentEnv, Tops, NewId) ==
    IF ~Prev.isPointer
    THEN WidenResult("nullptr", NoWidened, CurrentEnv, Tops, nullptrFormula, nullptrFormula)
    ELSE IF ~Prev.hasState \/ ~Current.hasState
    THEN WidenResult("nullptr", NoWidened, CurrentEnv, Tops, nullptrFormula, nullptrFormula)
    ELSE widenPointer(Prev, Current, CurrentEnv, getTopStorageLocation(Tops, Prev.loc.ty),
                      NewId,
                      widenNullabilityProperty(Prev.FromNullable, PrevEnv,
                                               Current.FromNullable, CurrentEnv),
                      widenNullabilityProperty(Prev.IsNull, PrevEnv, Current.IsNull,
                                               CurrentEnv))

NoWidenCall == [n |-> 0, run |-> 0, ret |-> "none"]

\* The value the loop is entered with: a pointer to a variable with any null
\* state, or a value that is no pointer.
InitWiden ==
    /\ SmartParked
    /\ MergeParked /\ CompareParked /\ OutputParked
    /\ DiagnoserParked /\ EntryParked /\ TransferParked /\ AggregatorParked
    /\ VirtualParked /\ InferTUParked
    /\ \/ prevPtr \in {WidenValue(TRUE, 1, l, st) :
                          l \in ProgramLocs,
                          st \in {NoNullState} \cup
                                 {PointerNullState(f, n) :
                                    f \in WidenFormulas, n \in WidenFormulas}}
       \/ prevPtr = WidenValue(FALSE, 1, NoLoc, NoNullState)
    /\ prevEnv \in WidenEnvs
    /\ TopStorageLocations = [t \in PointeeTypes \cup {"none"} |-> NoLoc]
    /\ widenCall = NoWidenCall

\* What a visit of the loop head leaves behind: the value widen returns, or
\* Current when it returns null, is the value the next visit finds as Prev.
Visit(Current, R) ==
    /\ prevPtr' = IF R.ret = "nullptr" THEN Current ELSE R.value
    /\ prevEnv' = R.Env
    /\ TopStorageLocations' = R.Tops
    /\ UNCHANGED frameWiden

Outcome(R) ==
    [n |-> widenCall.n + 1,
     run |-> CASE R.ret = "widened" -> widenCall.run + 1
               [] R.ret = "prev" -> widenCall.run
               [] OTHER -> 0,
     ret |-> R.ret, Prev |-> prevPtr,
     FromNullableWidened |-> R.FromNullableWidened,
     NullWidened |-> R.NullWidened]

\* One more visit of the loop head.
Widen(Current, CurrentEnv) ==
    /\ widenCall.n < MaxWidenings
    /\ \E R \in {widen(prevPtr, prevEnv, Current, CurrentEnv, TopStorageLocations,
                       prevPtr.id + 1)} :
          /\ Visit(Current, R)
          /\ widenCall' = Outcome(R)

NextWiden ==
    /\ widenCall.n < MaxWidenings
    /\ \E Current \in CurrentValues(prevPtr), CurrentEnv \in WidenEnvs :
            Widen(Current, CurrentEnv)

SpecWiden == InitWiden /\ [][NextWiden]_vars

\* The first visits of the loop head, with the arguments of widen on record.
WidenRecorded(Current, CurrentEnv) ==
    /\ widenCall.n < MaxRecordedVisits
    /\ \E R \in {widen(prevPtr, prevEnv, Current, CurrentEnv, TopStorageLocations,
                       prevPtr.id + 1)} :
          /\ Visit(Current, R)
          /\ widenCall' = Outcome(R) @@ [PrevEnv |-> prevEnv, Current |-> Current,
                                         CurrentEnv |-> CurrentEnv,
                                         Tops |-> TopStorageLocations]

NextWidenRecorded ==
    /\ widenCall.n < MaxRecordedVisits
    /\ \E Current \in CurrentValues(prevPtr), CurrentEnv \in WidenEnvs :
            WidenRecorded(Current, CurrentEnv)

SpecWidenRecorded == InitWiden /\ [][NextWidenRecorded]_vars

Called == widenCall.n > 0
WidenDeclines ==
    ~widenCall.Prev.isPointer \/ ~widenCall.Prev.hasState \/ ~widenCall.Current.hasState

\* When a property may be kept: previous and current formula are the same
\* formula, or both are proved true, or both proved false, each in its own
\* environment.
MayKeep(Prev, Cur) ==
    \/ Prev = Cur
    \/ /\ Prev # nullptrFormula /\ Cur # nullptrFormula
       /\ \/ EnvProves(widenCall.PrevEnv, Prev) /\ EnvProves(widenCall.CurrentEnv, Cur)
          \/ /\ EnvProves(widenCall.PrevEnv, makeNot(Prev))
             /\ EnvProves(widenCall.CurrentEnv, makeNot(Cur))

\* The property of the value widen leaves: top, or equated with Cur in the
\* current environment, or (PrevPtr returned) the previous formula.
PropertyWidened(Result, Own, Prev, Cur) ==
    /\ Result # nullptrFormula
         => /\ MayKeep(Prev, Cur)
            /\ IF widenCall.ret = "prev" THEN Result = Prev
               ELSE Result = Own /\ makeEquals(Own, Cur) \in prevEnv
    /\ ~MayKeep(Prev, Cur) => Result = nullptrFormula

\* C24: widen returns null and changes nothing for a value that is no pointer
\* or when either value has no null state. Otherwise the pointer it leaves
\* points to the top storage location of its pointee type, the one location
\* getTopStorageLocation gives for that type on every call; a property of that
\* pointer that is not top is the current formula, and previous and current
\* formula are then identical or both proved true or both proved false in
\* their environments; a property for which none of the three holds is top.
C24_WidenProperties ==
    /\ Called =>
         IF WidenDeclines
         THEN /\ widenCall.ret = "nullptr"
              /\ prevPtr = widenCall.Current
              /\ prevEnv = widenCall.CurrentEnv
              /\ TopStorageLocations = widenCall.Tops
         ELSE /\ widenCall.ret \in {"prev", "widened"}
              /\ prevPtr.loc = TopStorageLocations[prevPtr.loc.ty]
              /\ prevPtr.loc # NoLoc
              /\ (widenCall.ret = "widened") => prevPtr.loc.ty = widenCall.Current.loc.ty
              /\ PropertyWidened(prevPtr.FromNullable,
                                 WidenedNullability(prevPtr.id).FromNullable,
                                 widenCall.Prev.FromNullable, widenCall.Current.FromNullable)
              /\ PropertyWidened(prevPtr.IsNull, WidenedNullability(prevPtr.id).IsNull,
                                 widenCall.Prev.IsNull, widenCall.Current.IsNull)
    /\ \A t \in PointeeTypes : \A u \in PointeeTypes :
          (TopStorageLocations[t] # NoLoc /\ t # u)
              => /\ TopStorageLocations[t].ty = t
                 /\ TopStorageLocations[t] # TopStorageLocations[u]
                 /\ TopStorageLocations[t] \notin ProgramLocs
    /\ Called => \A t \in PointeeTypes :
          widenCall.Tops[t] # NoLoc => TopStorageLocations[t] = widenCall.Tops[t]

\* The second visit: is_null is proved false in both environments and kept as
\* the current formula, from_nullable has changed and becomes top, and the
\* pointer points to the top location made at the first visit.
C24_Witness ==
    /\ widenCall.n = 2
    /\ widenCall.ret = "widened"
    /\ widenCall.Tops["int"] # NoLoc
    /\ prevPtr.loc = widenCall.Tops["int"]
    /\ widenCall.Prev.hasState /\ widenCall.Current.hasState
    /\ widenCall.Prev.IsNull # nullptrFormula
    /\ widenCall.Current.IsNull # nullptrFormula
    /\ widenCall.Prev.IsNull # widenCall.Current.IsNull
    /\ EnvProves(widenCall.PrevEnv, makeNot(widenCall.Prev.IsNull))
    /\ ~EnvProves(widenCall.PrevEnv, widenCall.Prev.IsNull)
    /\ prevPtr.IsNull = WidenedNullability(prevPtr.id).IsNull
    /\ makeEquals(prevPtr.IsNull, widenCall.Current.IsNull) \in prevEnv
    /\ widenCall.Prev.FromNullable # nullptrFormula
    /\ prevPtr.FromNullable = nullptrFormula

IsTopLoc(V) == V.loc # NoLoc /\ V.loc = TopStorageLocations[V.loc.ty]

TopCount(V) ==
    (IF IsTopLoc(V) THEN 1 ELSE 0)
    + (IF V.FromNullable = nullptrFormula THEN 1 ELSE 0)
    + (IF V.IsNull = nullptrFormula THEN 1 ELSE 0)

\* C25: widen returns the previous value itself exactly when that value
\* points to the top location and each of its properties was kept by the
\* widening or was top already; a property that is top in the previous value
\* is top in the value widen leaves; and each widening that makes a value
\* turns the location or a property that was not top into top, so a run of
\* widenings makes at most three values (one for the location, one for each
\* property) before widen returns the previous value.
C25_WideningConverges ==
    /\ widenCall.ret \in {"prev", "widened"} =>
         LET P == widenCall.Prev
         IN /\ (widenCall.ret = "prev")
                 <=> /\ IsTopLoc(P)
                     /\ \/ widenCall.FromNullableWidened # nullptrFormula
                        \/ P.FromNullable = nullptrFormula
                     /\ \/ widenCall.NullWidened # nullptrFormula
                        \/ P.IsNull = nullptrFormula
            /\ (widenCall.ret = "prev") => prevPtr = P
            /\ (widenCall.ret = "widened") => (prevPtr.id # P.id /\ TopCount(prevPtr) > TopCount(P))
            /\ P.FromNullable = nullptrFormula => prevPtr.FromNullable = nullptrFormula
            /\ P.IsNull = nullptrFormula => prevPtr.IsNull = nullptrFormula
    /\ widenCall.run <= TopCount(prevPtr)
    /\ widenCall.run <= 3

\* Three widenings in a row made a value each (the location, then one
\* property, then the other became top); the fourth returns the previous
\* value.
C25_Witness ==
    /\ widenCall.n = 4
    /\ widenCall.run = 3
    /\ widenCall.ret = "prev"
    /\ prevPtr = widenCall.Prev
    /\ TopCount(prevPtr) = 3


\* ---------------------------------------------------------------------------
\* Smart pointers: transferValue_SmartPointerConstructor and
\* transferValue_SmartPointerAssignment, on two smart-pointer objects p and q.
\* ---------------------------------------------------------------------------

MaxSmartCalls == 3

SmartLocs == {"p", "q"}

\* The value held by an object's PtrField; the kind is the null state the
\* value was created with.
SmartValue(id, kind) == [id |-> id, kind |-> kind]
NoSmartValue == SmartValue(0, "none")
RawValue == SmartValue(0, "raw")

SmartEnv(field, created) == [field |-> field, created |-> created]

\* An argument expression: its type, the storage location the environment has
\* for it ("nullptr" when it has none), the value the environment has for it.
SmartArg(ty, loc, val) == [ty |-> ty, loc |-> loc, val |-> val]
NullPtrArg == SmartArg("nullptr_t", NoRecordLoc, NoSmartValue)
RawArgs == {SmartArg("raw", NoRecordLoc, v) : v \in {NoSmartValue, RawValue}}
SmartArgs(Locs) == {SmartArg("smart", l, NoSmartValue) : l \in Locs \cup {NoRecordLoc}}
WeakArg == SmartArg("weak", NoRecordLoc, NoSmartValue)

CXXConstructExpr(isDefault, args, rvalueParam) ==
    [isDefault |-> isDefault, args |-> args, rvalueParam |-> rvalueParam]

\* The constructor calls that build the object at Loc.
Ctors(Loc) ==
    {CXXConstructExpr(TRUE, <<>>, FALSE)}
    \cup {CXXConstructExpr(FALSE, <<a>>, FALSE) : a \in {NullPtrArg, WeakArg} \cup RawArgs}
    \cup {CXXConstructExpr(FALSE, <<a>>, r) :
            a \in SmartArgs(SmartLocs \ {Loc}), r \in BOOLEAN}
    \cup {CXXConstructExpr(FALSE, <<a, b>>, r) :
            a \in SmartArgs(SmartLocs \ {Loc}), b \in RawArgs, r \in BOOLEAN}

CXXOperatorCallExpr(dst, arg, rvalueParam) ==
    [dst |-> dst, arg |-> arg, rvalueParam |-> rvalueParam]

\* The calls of operator=: the destination expression has a storage location
\* or none, the source is nullptr or a smart pointer.
OpCalls ==
    {CXXOperatorCallExpr(d, NullPtrArg, FALSE) : d \in SmartLocs \cup {NoRecordLoc}}
    \cup {CXXOperatorCallExpr(d, a, r) :
            d \in SmartLocs \cup {NoRecordLoc}, a \in SmartArgs(SmartLocs), r \in BOOLEAN}

\* What an operation with undefined behaviour does in a build.
Builds == {"fails", "continues"}

SmartSetValue(Env, Loc, Val) == [Env EXCEPT !.field[Loc] = Val]

createNullPointer(Env, Loc) ==
    SmartEnv([Env.field EXCEPT ![Loc] = SmartValue(Env.created + 1, "null")],
             Env.created + 1)

setToNonNullPointer(Env, Loc) ==
    SmartEnv([Env.field EXCEPT ![Loc] = SmartValue(Env.created + 1, "nonnull")],
             Env.created + 1)

getPointerValueFromSmartPointer(SrcLoc, Env) ==
    IF SrcLoc = NoRecordLoc THEN NoSmartValue ELSE Env.field[SrcLoc]

transferValue_SmartPointerConstructor(Ctor, Loc, Env) ==
    LET n == Len(Ctor.args) IN
    IF Ctor.isDefault \/ (n >= 1 /\ Ctor.args[1].ty = "nullptr_t")
    THEN createNullPointer(Env, Loc)
    ELSE IF n >= 1 /\ Ctor.args[1].ty = "raw"
    THEN IF Ctor.args[1].val # NoSmartValue
         THEN SmartSetValue(Env, Loc, Ctor.args[1].val) ELSE Env
    ELSE IF n >= 1 /\ Ctor.args[1].ty = "smart"
    THEN LET SrcLoc == Ctor.args[1].loc
             Val == IF n = 2 /\ Ctor.args[2].ty = "raw"
                    THEN Ctor.args[2].val
                    ELSE getPointerValueFromSmartPointer(SrcLoc, Env)
             Copied == IF Val # NoSmartValue THEN SmartSetValue(Env, Loc, Val) ELSE Env
         IN  IF Ctor.rvalueParam /\ SrcLoc # NoRecordLoc
             THEN createNullPointer(Copied, SrcLoc) ELSE Copied
    ELSE IF n = 1 /\ Ctor.args[1].ty = "weak"
    THEN setToNonNullPointer(Env, Loc)
    ELSE Env

\* The outcome of the assignment: the environment left and whether the
\* transfer failed.  cast<> of a null location is an assertion failure in a
\* build with assertions and a null pointer otherwise; the member call on a
\* null SrcLoc is undefined.
SmartOutcome(Env, failed) == [env |-> Env, failed |-> failed]

transferValue_SmartPointerAssignment(OpCall, Env, Build) ==
    LET Loc == OpCall.dst IN
    IF Loc = NoRecordLoc
    THEN SmartOutcome(Env, Build = "fails")
    ELSE IF OpCall.arg.ty = "nullptr_t"
    THEN SmartOutcome(createNullPointer(Env, Loc), FALSE)
    ELSE LET SrcLoc == OpCall.arg.loc
             Val == getPointerValueFromSmartPointer(SrcLoc, Env)
             Copied == IF Val # NoSmartValue THEN SmartSetValue(Env, Loc, Val) ELSE Env
         IN  IF OpCall.rvalueParam
             THEN IF SrcLoc = NoRecordLoc
                  THEN SmartOutcome(Copied, Build = "fails")
                  ELSE SmartOutcome(createNullPointer(Copied, SrcLoc), FALSE)
             ELSE SmartOutcome(Copied, FALSE)

NoSmartOp ==
    [n |-> 0, op |-> "none", failed |-> FALSE, dst |-> NoRecordLoc,
     arg |-> NullPtrArg, rvalueParam |-> FALSE,
     before |-> SmartEnv([l \in SmartLocs |-> NoSmartValue], 0)]

InitSmart ==
    /\ WidenParked /\ MergeParked /\ CompareParked /\ OutputParked
    /\ DiagnoserParked /\ EntryParked /\ TransferParked /\ AggregatorParked
    /\ VirtualParked /\ InferTUParked
    /\ smartField = [l \in SmartLocs |-> NoSmartValue]
    /\ smartCreated = 0
    /\ smartOp = NoSmartOp

\* A constructor call builds the object at Loc, which holds no value yet.
ConstructSmartPointer(Loc, Ctor) ==
    /\ ~smartOp.failed
    /\ smartOp.n < MaxSmartCalls
    /\ smartField[Loc] = NoSmartValue
    /\ \E R \in {transferValue_SmartPointerConstructor(
                    Ctor, Loc, SmartEnv(smartField, smartCreated))} :
          /\ smartField' = R.field
          /\ smartCreated' = R.created
    /\ smartOp' = [n |-> smartOp.n + 1, op |-> "construct", failed |-> FALSE,
                   dst |-> Loc,
                   arg |-> IF Len(Ctor.args) = 1 THEN Ctor.args[1] ELSE WeakArg,
                   rvalueParam |-> Ctor.rvalueParam,
                   before |-> SmartEnv(smartField, smartCreated)]
    /\ UNCHANGED frameSmart

AssignSmartPointer(OpCall, Build) ==
    /\ ~smartOp.failed
    /\ smartOp.n < MaxSmartCalls
    /\ \E R \in {transferValue_SmartPointerAssignment(
                    OpCall, SmartEnv(smartField, smartCreated), Build)} :
          /\ smartField' = R.env.field
          /\ smartCreated' = R.env.created
          /\ smartOp' = [n |-> smartOp.n + 1, op |-> "assign", failed |-> R.failed,
                         dst |-> OpCall.dst, arg |-> OpCall.arg,
                         rvalueParam |-> OpCall.rvalueParam,
                         before |-> SmartEnv(smartField, smartCreated)]
    /\ UNCHANGED frameSmart

NextSmart ==
    \/ \E Loc \in SmartLocs : \E Ctor \in Ctors(Loc) : ConstructSmartPointer(Loc, Ctor)
    \/ \E OpCall \in OpCalls, Build \in Builds : AssignSmartPointer(OpCall, Build)

SpecSmart == InitSmart /\ [][NextSmart]_vars

\* The environment the constructor leaves when the same source initialises a
\* new object in place of the assignment's destination, with the destination's
\* old value where the constructor writes none.
ConstructedFrom(Before, Dst, Arg, RValueParam) ==
    LET Fresh == SmartSetValue(Before, Dst, NoSmartValue)
        C == transferValue_SmartPointerConstructor(
                 CXXConstructExpr(FALSE, <<Arg>>, RValueParam), Dst, Fresh)
    IN  IF C.field[Dst] = NoSmartValue
        THEN SmartSetValue(C, Dst, Before.field[Dst]) ELSE C

AssignedToObject ==
    smartOp.op = "assign" /\ smartOp.dst # NoRecordLoc

\* C26: the assignment operator mirrors the constructor for every source:
\* nullptr leaves the destination null, a smart pointer leaves its current
\* value in the destination, a move also leaves the source null; for the same
\* source, with or without a storage location, the assignment does not fail
\* and leaves what the constructor leaves in destination and source.
C26_AsStated ==
    AssignedToObject =>
        /\ ~smartOp.failed
        /\ smartOp.arg.ty = "nullptr_t" => smartField[smartOp.dst].kind = "null"
        /\ (/\ smartOp.arg.ty = "smart"
            /\ smartOp.arg.loc \notin {NoRecordLoc, smartOp.dst}
            /\ smartOp.before.field[smartOp.arg.loc] # NoSmartValue)
           => smartField[smartOp.dst] = smartOp.before.field[smartOp.arg.loc]
        /\ (/\ smartOp.arg.ty = "smart"
            /\ smartOp.rvalueParam
            /\ smartOp.arg.loc # NoRecordLoc)
           => smartField[smartOp.arg.loc].kind = "null"
        /\ smartOp.arg.loc # smartOp.dst
           => SmartEnv(smartField, smartCreated)
                = ConstructedFrom(smartOp.before, smartOp.dst, smartOp.arg,
                                  smartOp.rvalueParam)

\* The kind a value created for e is to take: the annotation on e's own type
\* when there is one, else the outer entry of e's nullability vector.
OuterKind(e) ==
    IF FromClang(e) # Unspecified THEN FromClang(e)
    ELSE IF ExprToNullability[e].has /\ ExprToNullability[e].v # <<>>
         THEN ExprToNullability[e].v[1]
         ELSE Unspecified

CreatedFor(e) == e \in visited /\ envValue[e].origin \in {"ensure", "call"}

\* The diagnostics of dereferencing e's value under the flow condition.
DereferenceUnder(e, fc) ==
    diagnoseDereference(
        [operand |-> Operand(e, TRUE, getPointerNullState(envValue[e]).IsNull)],
        Environment(fc, FALSE, FALSE))

C30_WriteOnce ==
    [][\A e \in Exprs :
        /\ ExprToNullability[e].has => ExprToNullability'[e] = ExprToNullability[e]
        /\ ExprToNullability'[e] # ExprToNullability[e] =>
              ~ExprToNullability[e].has /\ ExprToNullability'[e].has
        /\ getExprNullability(ExprToNullability', "paren") = ExprToNullability'["pp"]
      ]_vars

C30_Witness ==
    /\ {"pp", "ld", "addr"} \subseteq visited
    /\ typeAnnotation["pp"] = <<NonNull, Nullable>>
    /\ ExprToNullability["pp"] = Entry(<<NonNull, Nullable>>)
    /\ ExprToNullability["ld"] = Entry(<<NonNull, Nullable>>)
    /\ ExprToNullability["addr"] = Entry(<<NonNull, NonNull, Nullable>>)

====
